---- MODULE Spec2Model ----
(***************************************************************************)
(* Model of @ohmywallet/connect: the request correlation manager, the      *)
(* origin/source gate and the channel base (src/channel.ts) and the        *)
(* session host IframeHost (src/host.ts).                                  *)
(*                                                                         *)
(* Scheduling: JavaScript is single threaded.  Every action below is one   *)
(* macrotask (an API call by the dApp, a timer firing, a DOM event or a    *)
(* message event) together with the promise continuations (microtasks)     *)
(* it makes runnable, which run before the next macrotask.                 *)
(***************************************************************************)
EXTENDS Integers, Sequences, FiniteSets, TLC

\* ------------------------------------------------------------------------
\* Bounds
\* ------------------------------------------------------------------------
\* number of API operations the dApp invokes on one host
MaxCalls == 2
\* number of requests registered directly with one RequestManager
MaxIds == 3
\* number of times the destroyed event is delivered to the dApp
MaxEvents == 2
\* number of runs of initialize(): the first and those of reinitialize()
MaxRuns == 2
\* number of deriveAddress calls the application makes on one manager
MaxDerives == 1
\* sign calls of the application on the manager
MaxSigns == 1

\* ids generateMessageId can have issued: one per request, one for DESTROY
IdBound == IF MaxIds > MaxCalls + 1 THEN MaxIds ELSE MaxCalls + 1
Ids == 1..IdBound
\* request ids an inbound message may carry: 0 is an id never issued
InIds == 0..IdBound

NoWindow == "null"


\* ------------------------------------------------------------------------
\* Strings are sequences of characters, so that startsWith and equality
\* are computed as String.prototype does
\* ------------------------------------------------------------------------
sHttpLocalhostColon == <<"h","t","t","p",":","/","/","l","o","c","a","l","h","o","s","t",":">>
sHttpLoopbackColon == <<"h","t","t","p",":","/","/","1","2","7",".","0",".","0",".","1",":">>
sHttpLocalhost3000 == sHttpLocalhostColon \o <<"3","0","0","0">>
sHttpLoopback3000 == sHttpLoopbackColon \o <<"3","0","0","0">>
sHttpLocalhost4000 == sHttpLocalhostColon \o <<"4","0","0","0">>
sHttpLocalhostNoPort == <<"h","t","t","p",":","/","/","l","o","c","a","l","h","o","s","t">>
sHttpsLocalhost4000 == <<"h","t","t","p","s",":","/","/","l","o","c","a","l","h","o","s","t",":","4","0","0","0">>
sHttpLocalhostEvil == sHttpLocalhostNoPort \o <<".","e","v","i","l",".","e","x">>
sHttpEvil == <<"h","t","t","p",":","/","/","e","v","i","l",".","e","x">>
sHttpsVault == <<"h","t","t","p","s",":","/","/","v","a","u","l","t",".","e","x">>
sHttpsDapp == <<"h","t","t","p","s",":","/","/","d","a","p","p",".","e","x">>
sStar == <<"*">>
sLocalhost == <<"l","o","c","a","l","h","o","s","t">>

\* origins a message event can report
Origins == {sHttpLocalhost3000, sHttpLoopback3000, sHttpLocalhost4000, sHttpLocalhostNoPort,
            sHttpsLocalhost4000, sHttpLocalhostEvil, sHttpEvil, sHttpsVault, sHttpsDapp}

\* window.location.origin of the dApp page
windowLocationOrigin == sHttpsDapp

startsWith(s, p) == /\ Len(s) >= Len(p)
                    /\ SubSeq(s, 1, Len(p)) = p

\* ------------------------------------------------------------------------
\* Origin/Source gate (pure functions)
\* ------------------------------------------------------------------------
\* a localhost test that leaves the colon out of the prefix
isValidOrigin_noColon(origin, allowed, prod) ==
  IF allowed = sStar THEN ~prod
  ELSE IF origin = allowed THEN TRUE
  ELSE IF allowed = sLocalhost
       THEN \/ startsWith(origin, sHttpLocalhostNoPort)
            \/ startsWith(origin, sHttpLoopbackColon)
  ELSE FALSE

\* prod: typeof process !== "undefined" && process.env?.NODE_ENV === "production"
isValidOrigin(origin, allowed, prod) ==
  IF allowed = sStar THEN ~prod
  ELSE IF origin = allowed THEN TRUE
  ELSE IF allowed = sLocalhost
       THEN \/ origin = sHttpLocalhost3000
            \/ origin = sHttpLoopback3000
            \/ startsWith(origin, sHttpLocalhostColon)
            \/ startsWith(origin, sHttpLoopbackColon)
  ELSE FALSE

\* the second copy of the channel module shipped in the repository
isValidOriginKo(origin, allowed, prod) ==
  IF allowed = sStar THEN TRUE
  ELSE IF origin = allowed THEN TRUE
  ELSE IF allowed = sLocalhost
       THEN \/ origin = sHttpLocalhost3000
            \/ origin = sHttpLoopback3000
            \/ startsWith(origin, sHttpLocalhostColon)
            \/ startsWith(origin, sHttpLoopbackColon)
  ELSE FALSE

\* Shapes of event.data.  A datum is a record [shape, type, rid, val]:
\*   shape "msg"      an object with type:string, id:string, timestamp:number, payload
\*   shape "nullish"  null / undefined / 0 / ""
\*   shape "prim"     a non-object (a string or number)
\*   shape "notype"   an object whose type is not a string
\*   shape "noid"     an object whose id is not a string
\*   shape "nots"     an object whose timestamp is not a number
\*   shape "nopl"     an object without a payload property
DataShapes == {"msg", "nullish", "prim", "notype", "noid", "nots", "nopl"}

isValidMessage(data) ==
  IF data.shape = "nullish" \/ data.shape = "prim" THEN FALSE
  ELSE /\ data.shape # "notype"
       /\ data.shape # "noid"
       /\ data.shape # "nots"
       /\ data.shape # "nopl"

\* ------------------------------------------------------------------------
\* RequestManager.  rm = [pending, timers, promise, settles]
\*   pending  keys of the Map
\*   timers   ids whose setTimeout is armed
\*   promise  the promise created by register(id)
\*   settles  how often that promise's resolve/reject function was called
\* ------------------------------------------------------------------------
Unreg == [st |-> "unreg", v |-> "-"]
Waiting == [st |-> "pending", v |-> "-"]
Resolved(d) == [st |-> "resolved", v |-> d]
Rejected(code) == [st |-> "rejected", v |-> code]

\* a promise keeps its first settlement
Settle(pr, o) == IF pr.st = "pending" THEN o ELSE pr

RMInit(idset) == [pending |-> {}, timers |-> {},
                  promise |-> [i \in idset |-> Unreg],
                  settles |-> [i \in idset |-> 0]]

register(r, id) ==
  [r EXCEPT !.timers = @ \cup {id},
            !.pending = @ \cup {id},
            !.promise[id] = Waiting]

\* a resolve that leaves the entry in the Map
resolve_keepsEntry(r, id, data) ==
  IF id \notin r.pending THEN r
  ELSE [r EXCEPT !.timers = @ \ {id},
                 !.promise[id] = Settle(@, Resolved(data)),
                 !.settles[id] = @ + 1]

resolve(r, id, data) ==
  IF id \notin r.pending THEN r
  ELSE [r EXCEPT !.timers = @ \ {id},
                 !.pending = @ \ {id},
                 !.promise[id] = Settle(@, Resolved(data)),
                 !.settles[id] = @ + 1]

\* a reject that disarms the timers of all requests
reject_allTimers(r, id, code) ==
  IF id \notin r.pending THEN r
  ELSE [r EXCEPT !.timers = {},
                 !.pending = @ \ {id},
                 !.promise[id] = Settle(@, Rejected(code)),
                 !.settles[id] = @ + 1]

reject(r, id, code) ==
  IF id \notin r.pending THEN r
  ELSE [r EXCEPT !.timers = @ \ {id},
                 !.pending = @ \ {id},
                 !.promise[id] = Settle(@, Rejected(code)),
                 !.settles[id] = @ + 1]

\* return value of resolve / reject
found(r, id) == id \in r.pending

\* a timeout callback that leaves the entry in the Map
onTimeout_keepsEntry(r, id) ==
  [r EXCEPT !.timers = @ \ {id},
            !.promise[id] = Settle(@, Rejected("TIMEOUT")),
            !.settles[id] = @ + 1]

\* the setTimeout callback of register(id)
onTimeout(r, id) ==
  [r EXCEPT !.timers = @ \ {id},
            !.pending = @ \ {id},
            !.promise[id] = Settle(@, Rejected("TIMEOUT")),
            !.settles[id] = @ + 1]

\* a cancelAll that does not clear the timers
cancelAll_timersLeft(r) ==
  [r EXCEPT !.pending = {},
            !.promise = [i \in DOMAIN r.promise |->
                           IF i \in r.pending THEN Settle(r.promise[i], Rejected("DESTROYED"))
                           ELSE r.promise[i]],
            !.settles = [i \in DOMAIN r.settles |->
                           IF i \in r.pending THEN r.settles[i] + 1 ELSE r.settles[i]]]

cancelAll(r) ==
  [r EXCEPT !.timers = @ \ r.pending,
            !.pending = {},
            !.promise = [i \in DOMAIN r.promise |->
                           IF i \in r.pending THEN Settle(r.promise[i], Rejected("DESTROYED"))
                           ELSE r.promise[i]],
            !.settles = [i \in DOMAIN r.settles |->
                           IF i \in r.pending THEN r.settles[i] + 1 ELSE r.settles[i]]]

pendingCount(r) == Cardinality(r.pending)

\* ------------------------------------------------------------------------
\* State
\* ------------------------------------------------------------------------
VARIABLES
  rm,             \* the channel's RequestManager
  rmRet,          \* history: the last direct resolve / reject call and its return value
  firstEv,        \* history: first event that happened to each registered id
  nextId,         \* messageIdCounter
  handlers,       \* IframeChannelBase.handlers
  allowedOrigin,  \* IframeChannelBase.allowedOrigin
  allowedSource,  \* IframeChannelBase.allowedSource
  listening,      \* messageListener !== null
  destroyed,      \* IframeChannelBase.destroyed
  production,     \* process.env.NODE_ENV === "production"
  gate,           \* history: the last inbound event and how far it got
  state,          \* IframeHost.state
  iframe,         \* IframeHost.iframe / overlay mounted in the document
  overlayShown,   \* overlay.style.opacity = "1"
  readyResolver,  \* IframeHost.readyResolver !== null
  hs,             \* the handshake of ensureIframeReady: caller and timers
  calls,          \* the dApp's API calls and where each is suspended
  posted,         \* history: messages posted to the peer
  seen,           \* history: load signal / READY observed by the host
  eventHandlers,  \* IframeHost.eventHandlers
  events,         \* history: host events delivered to the dApp
  contentWindow,  \* iframe.contentWindow !== null: the surface is attached to the document
  wm,             \* HostWalletManager: state, addresses, currentAddress, currentKeyIndex
  storage,        \* localStorage entry "ohmywallet:host:addresses"
  wmOps           \* the manager's operations suspended on a promise of the host

vars == <<rm, rmRet, firstEv, nextId, handlers, allowedOrigin, allowedSource, listening,
          destroyed, production, gate, state, iframe, overlayShown, readyResolver, hs,
          calls, posted, seen, eventHandlers, events, contentWindow, wm, storage, wmOps>>

wmVars == <<wm, storage, wmOps>>
hostVars == <<rm, rmRet, firstEv, nextId, handlers, allowedOrigin, allowedSource, listening,
              destroyed, production, gate, state, iframe, overlayShown, readyResolver, hs,
              calls, posted, seen, eventHandlers, events, contentWindow>>
rmVars == <<rm, rmRet, firstEv, nextId>>
chanVars == <<handlers, allowedOrigin, allowedSource, listening, destroyed, production>>

\* ------------------------------------------------------------------------
\* Inputs
\* ------------------------------------------------------------------------
IframeWin == "iframeWin"
OtherWin == "otherWin"

Data == {"d1", "d2"}
PeerCodes == {"USER_CANCELLED"}
ResultTypes == {"CONNECT_RESULT", "SIGN_RESULT", "DERIVE_ADDRESS_RESULT"}
HandledTypes == {"READY", "NEEDS_ONBOARDING"} \cup ResultTypes
\* CONNECT stands for a well-formed message of a type the host has no handler for
InTypes == HandledTypes \cup {"ERROR", "CONNECT"}
RequestTypes == {"CONNECT", "SIGN_WITH_PASSKEY", "SIGN_WITH_DERIVATION", "DERIVE_ADDRESS"}

\* pl is what the payload property holds: "object" (an object with a requestId,
\* rid), "norid" (an object without requestId) or "null"
Msg(t, rid, v) == [shape |-> "msg", type |-> t, rid |-> rid, val |-> v, pl |-> "object"]
MsgPl(t, pl) == [shape |-> "msg", type |-> t, rid |-> 0, val |-> "-", pl |-> pl]
Junk(sh) == [shape |-> sh, type |-> "-", rid |-> 0, val |-> "-", pl |-> "-"]
Messages == {Msg(t, 0, "-") : t \in {"READY", "NEEDS_ONBOARDING", "CONNECT"}}
            \cup {Msg(t, i, d) : t \in ResultTypes, i \in InIds, d \in Data}
            \cup {Msg("ERROR", i, c) : i \in InIds, c \in PeerCodes}
Junks == {Junk(sh) : sh \in DataShapes \ {"msg"}}

\* hash / keyId arguments and viem's isHex on them
HexInputs == {"0xab", "zz"}
isHex(h) == h = "0xab"
\* address arguments and viem's isAddress on them
AddressInputs == {"undef", "0xGood", "0xBad"}
isAddress(a) == a \in {"0xGood", "0xaa", "0xAB", "0xbb"}
has0x(a) == a \in {"0xGood", "0xBad", "0xaa", "0xAB", "0xbb"}
GroupInputs == {"undef", "evm"}
\* A keyIndex is a JavaScript number.  Num(q, r) is the integer q * 65536 + r with
\* 0 <= r < 65536, so that values beyond 2^31 - 1 are representable.
Num(q, r) == [q |-> q, r |-> r]
LtNum(a, b) == a.q < b.q \/ (a.q = b.q /\ a.r < b.r)
Zero == Num(0, 0)
\* 2147483647
MaxKeyIndex == Num(32767, 65535)
\* keyIndex arguments: undefined or a number
NoKey == [def |-> FALSE, n |-> Zero]
Key(n) == [def |-> TRUE, n |-> n]
\* undefined, 0, 2147483648 and -1
KeyIndexInputs == {NoKey, Key(Zero), Key(Num(32768, 0)), Key(Num(-1, 65535))}

NoPayload == [address |-> "undef", group |-> "undef", keyIndex |-> NoKey]

\* ------------------------------------------------------------------------
\* Calls of the dApp.  calls[c] = [op, pc, id, out, hide]
\*   pc   "new"   not invoked
\*        "load"  suspended in waitForIframeLoad
\*        "ready" suspended in waitForWorkerReady
\*        "req"   suspended on requestManager.register(id)
\*        "ensure" connectWithSignerType yielded at `await this.ensureIframeReady()`
\*                on a host whose surface is mounted; its continuation is queued
\*        "done"  settled, out is the outcome delivered to the caller
\*   hide the continuation calls hide()
\* ------------------------------------------------------------------------
Calls == 1..MaxCalls
NewCall == [op |-> "none", pc |-> "new", id |-> 0, out |-> Unreg, hide |-> FALSE]
\* the next call the dApp makes
IsNext(c) == /\ calls[c].op = "none"
             /\ \A d \in DOMAIN calls : d < c => calls[d].op # "none"

Threw(op, code) == [op |-> op, pc |-> "done", id |-> 0, out |-> Rejected(code), hide |-> FALSE]
Awaiting(op, id, hide) == [op |-> op, pc |-> "req", id |-> id, out |-> Waiting, hide |-> hide]

\* calls whose awaited promise is settled in r2
Woken(cs, r2) == {c \in DOMAIN cs : cs[c].pc = "req" /\ r2.promise[cs[c].id].st \in {"resolved", "rejected"}}

\* the continuations after `await this.requestManager.register(id)`
Resume(cs, r2) ==
  [c \in DOMAIN cs |->
     IF c \in Woken(cs, r2)
     THEN [cs[c] EXCEPT !.pc = "done", !.out = r2.promise[cs[c].id]]
     ELSE cs[c]]

\* connectWithSignerType line 172: this.state = "ready"
StateAfter(st, cs, r2) ==
  IF \E c \in Woken(cs, r2) : cs[c].op = "connect" /\ r2.promise[cs[c].id].st = "resolved"
  THEN "ready" ELSE st

\* hide() in the continuation of the sign calls
ShownAfter(sh, cs, r2) ==
  IF \E c \in Woken(cs, r2) : cs[c].hide THEN FALSE ELSE sh

\* show(): only when the overlay exists
show(sh, mounted) == IF mounted THEN TRUE ELSE sh
hide(sh, mounted) == IF mounted THEN FALSE ELSE sh

\* history record of a postMessage: sn is what the host has observed of the
\* surface (load signal, READY) when the message is posted
PostRec(t, id, pl, sn) == [type |-> t, id |-> id, load |-> sn.load, ready |-> sn.ready, pl |-> pl]

\* ------------------------------------------------------------------------
\* HostWalletManager: address records, the persisted cache, results of the host
\* ------------------------------------------------------------------------
\* HostWalletAddressInfo; bitcoinAddressType is carried along and never compared
Rec(k, g, n, a) == [keyIndex |-> k, group |-> g, bitcoinNetwork |-> n, address |-> a]
NoRec == Rec(0, "undef", "undef", "undef")
recPrimary == Rec(0, "evm", "undef", "0xaa")
recPrimaryNew == Rec(0, "evm", "undef", "0xAB")
recSecond == Rec(1, "evm", "undef", "0xbb")
recBitcoin == Rec(1, "bitcoin", "testnet", "tb1")
\* entries of a stored array that are not address records: an object without
\* the fields (every field reads undefined; -1 stands for the undefined keyIndex)
\* and the JSON value null
recBlank == Rec(-1, "undef", "undef", "undef")
recNull == Rec(-2, "null", "null", "null")
\* address records the peer can answer a derive request with
PeerRecords == {recPrimary, recPrimaryNew, recSecond, recBitcoin}

\* the uniqueness key of a record
KeyOf(r) == <<r.keyIndex, r.group, r.bitcoinNetwork>>

\* String.prototype.toLowerCase on the address strings
toLowerCase(a) == IF a = "0xAB" THEN "0xab" ELSE a

\* the localStorage entry: absent, not parseable, or the JSON of {addresses},
\* whose addresses need not be address records;
\* mode: "ok", "full" (setItem throws, quota exceeded), "blocked" (getItem, setItem
\* and removeItem throw), "undefined" (typeof localStorage === "undefined")
NoStorage == [kind |-> "absent", addresses |-> <<>>, mode |-> "ok"]
CorruptStorage == [kind |-> "corrupt", addresses |-> <<>>, mode |-> "ok"]
Stored(list) == [kind |-> "json", addresses |-> list, mode |-> "ok"]
WithMode(st, mode) == [st EXCEPT !.mode = mode]
\* cache contents an earlier session can leave: <<recSecond>> after
\* switchToAddress(1) and removeAddress of the primary address
CacheLists == {<<>>, <<recPrimary>>, <<recSecond>>, <<recPrimary, recSecond>>,
               <<recPrimary, recSecond, recBitcoin>>,
               <<recPrimary, recSecond, recSecond>>}
\* entries that parse as JSON and hold no list of address records
MisshapenLists == {<<recBlank, recBlank>>, <<recNull, recNull>>}
Storages == {NoStorage, CorruptStorage} \cup {Stored(l) : l \in CacheLists \cup MisshapenLists}
            \cup {WithMode(NoStorage, "full"), WithMode(Stored(<<recPrimary, recSecond>>), "full"),
                  WithMode(Stored(<<recPrimary, recSecond>>), "blocked"),
                  WithMode(NoStorage, "undefined")}

\* loadCachedAddresses(): the list it returns, and whether an exception leaves it
loadCachedAddresses(st) ==
  IF st.mode = "undefined" THEN [threw |-> FALSE, list |-> <<>>]
  ELSE IF st.mode = "blocked" THEN [threw |-> FALSE, list |-> <<>>]
  ELSE IF st.kind = "absent" THEN [threw |-> FALSE, list |-> <<>>]
  ELSE IF st.kind = "corrupt" THEN [threw |-> FALSE, list |-> <<>>]
  ELSE [threw |-> FALSE, list |-> st.addresses]

\* saveCachedAddresses(): the entry afterwards
saveCachedAddresses(st, list) ==
  IF st.mode = "undefined" THEN st
  ELSE IF st.mode \in {"blocked", "full"} THEN st
  ELSE [st EXCEPT !.kind = "json", !.addresses = list]

\* clearCachedAddresses(): the entry afterwards
clearCachedAddresses(st) ==
  IF st.mode = "undefined" THEN st
  ELSE IF st.mode = "blocked" THEN st
  ELSE [st EXCEPT !.kind = "absent", !.addresses = <<>>]

\* array helpers
RECURSIVE FilterNotIn(_, _)
FilterNotIn(list, present) ==
  IF list = <<>> THEN <<>>
  ELSE IF \E i \in 1..Len(present) : KeyOf(present[i]) = KeyOf(Head(list))
       THEN FilterNotIn(Tail(list), present)
       ELSE <<Head(list)>> \o FilterNotIn(Tail(list), present)

\* the callback of the filter reads cached.keyIndex: a TypeError when an entry of
\* the cached list is null and the address list is not empty
filterThrows(list, present) ==
  present # <<>> /\ \E i \in 1..Len(list) : list[i] = recNull

\* Array.prototype.findIndex, 1-based, 0 for "not found"; tests[i] is the
\* value of the callback on the i-th element
FindIndex(tests) ==
  LET hits == {i \in 1..Len(tests) : tests[i]}
  IN IF hits = {} THEN 0 ELSE CHOOSE i \in hits : \A j \in hits : i <= j

\* Array.prototype.splice(index, 1)
Splice(list, index) == SubSeq(list, 1, index - 1) \o SubSeq(list, index + 1, Len(list))

\* String.prototype.includes on messages, a message being a sequence of words
includes(msg, sub) ==
  \E i \in 0..(Len(msg) - Len(sub)) : SubSeq(msg, i + 1, i + Len(sub)) = sub

\* error messages, in words: the Korean "no wallet" text initialize() looks for
\* (romanised here), the same inside a longer message, and others
sNoWallet == <<"jigabi", "eopsseumnida">>
sNoWalletLong == <<"oryu:", "jigabi", "eopsseumnida">>
sNotInitialized == <<"iframe", "not", "initialized">>
sTimeout == <<"Request", "timeout">>
sDestroyed == <<"Channel", "destroyed">>
sLoadFailed == <<"iframe", "load", "failed">>
sOther == <<"error">>

\* an ERROR message of the peer carries a code and a message; the value of the
\* message (and of the rejection the host makes of it) names both
eNoWallet == "NOT_INITIALIZED: jigabi eopsseumnida"
eNoWalletLong == "NOT_INITIALIZED: oryu: jigabi eopsseumnida"
eCancelled == "USER_CANCELLED: jigabi eopsseumnida"
PeerErrors == {eNoWallet, eNoWalletLong, eCancelled}
\* the codes of the errors the host makes itself
HostErrors == {"TIMEOUT", "NOT_INITIALIZED", "DESTROYED", "SIGN_FAILED"}

\* IframeError.code and IframeError.message of a rejection with value v
errorCode(v) ==
  IF v \in {eNoWallet, eNoWalletLong} THEN "NOT_INITIALIZED"
  ELSE IF v = eCancelled THEN "USER_CANCELLED"
  ELSE v
errorMessage(v) ==
  IF v \in {eNoWallet, eCancelled} THEN sNoWallet
  ELSE IF v = eNoWalletLong THEN sNoWalletLong
  ELSE IF v = "NOT_INITIALIZED" THEN sNotInitialized
  ELSE IF v = "TIMEOUT" THEN sTimeout
  ELSE IF v = "DESTROYED" THEN sDestroyed
  ELSE IF v = "SIGN_FAILED" THEN sLoadFailed
  ELSE sOther

\* what the promise of host.connectWithSignerType settles with
ConnectResolved == [st |-> "resolved", code |-> "-", message |-> <<>>]
ConnectRejected(code, msg) == [st |-> "rejected", code |-> code, message |-> msg]
ConnectOutcomes == {ConnectResolved}
                   \cup {ConnectRejected(errorCode(e), errorMessage(e)) :
                           e \in HostErrors \cup PeerErrors}
\* the outcome o of a call of the host, as the manager's await sees it
ConnectOutcome(o) ==
  IF o.st = "resolved" THEN ConnectResolved
  ELSE ConnectRejected(errorCode(o.v), errorMessage(o.v))

\* what a promise of host.deriveAddress settles with
DeriveOk(r) == [st |-> "resolved", success |-> TRUE, address |-> r, code |-> "-",
                message |-> <<>>]
DeriveNoAddress == [st |-> "resolved", success |-> TRUE, address |-> NoRec, code |-> "-",
                    message |-> <<>>]
DeriveFailed == [st |-> "resolved", success |-> FALSE, address |-> NoRec, code |-> "-",
                 message |-> <<>>]
\* rejected with the IframeError of value e
HostRejected(e) == [st |-> "rejected", success |-> FALSE, address |-> NoRec,
                    code |-> errorCode(e), message |-> errorMessage(e)]
DeriveOutcomes == {DeriveOk(r) : r \in PeerRecords}
                  \cup {DeriveNoAddress, DeriveFailed}
                  \cup {HostRejected(e) : e \in HostErrors \cup PeerErrors}
\* the data of a DERIVE_ADDRESS_RESULT: the address of the record it carries,
\* "failed" for {success: false}, and data without an address
DeriveData == {r.address : r \in PeerRecords} \cup {"failed", "d1"}
\* the outcome o of a call of the host, as the manager's await sees it
DeriveOutcome(o) ==
  IF o.st # "resolved" THEN HostRejected(o.v)
  ELSE IF o.v = "failed" THEN DeriveFailed
  ELSE IF \E r \in PeerRecords : r.address = o.v
       THEN DeriveOk(CHOOSE r \in PeerRecords : r.address = o.v)
  ELSE DeriveNoAddress
hasRecord(out) == out.st = "resolved" /\ out.address # NoRec

\* the manager's own calls.  wmOps.runs[r] is the r-th run of initialize():
\*   init     "new", "connect" / "onboarding" / "primary" (awaiting the host; it is
\*            "onboarding" once the peer sent NEEDS_ONBOARDING), "failed"
\*            (initializeFirstAddress rejected with error, the catch block of
\*            initialize is queued), "returned", "threw"
\*   cached   the list loadCachedAddresses returned to the run
\*   restore  "none", "derive" (a restore request awaits the host), "failed"
\*            (restoreCachedAddressesFromList rejected, its catch callback is
\*            queued), "done"
\*   todo     the entries the restore loop has not finished
\*   onboarding, errors   calls of onNeedsOnboarding / onError made by the run
\*   call     the call of the host the run awaits (an index of calls), 0 for none
\* wmOps.derive[c] = [pc, keyIndex, out] is the c-th deriveAddress call,
\* wmOps.sign[s] = [pc, out] the s-th sign call, wmOps.ret the argument of the last
\* removeAddress call and what it returned or threw
NoError == [st |-> "none", code |-> "-", message |-> <<>>]
\* an error that is no IframeError (a TypeError)
OtherError == [st |-> "rejected", code |-> "-", message |-> <<>>]
NewRun == [init |-> "new", cached |-> <<>>, restore |-> "none", todo |-> <<>>,
           onboarding |-> 0, errors |-> 0, call |-> 0, error |-> NoError]
NewDerive == [pc |-> "new", keyIndex |-> 0, out |-> "-", call |-> 0]
NewSign == [pc |-> "new", out |-> "-", call |-> 0]
NoReturn == [arg |-> "-", v |-> "-"]
Runs == 1..MaxRuns
Derives == 1..MaxDerives
Signs == 1..MaxSigns

\* new HostWalletManager(config); owned: config.iframeHost is a configuration
\* and the manager creates the host (this.ownedHost)
WMInitOf(st, owned) ==
  /\ wm = [state |-> "idle", addresses |-> <<>>, currentAddress |-> "null",
           currentKeyIndex |-> 0]
  /\ storage = st
  /\ wmOps = [runs |-> [r \in Runs |-> NewRun],
              derive |-> [c \in Derives |-> NewDerive],
              sign |-> [s \in Signs |-> NewSign],
              ret |-> NoReturn, owned |-> owned]

WMInit(st) == WMInitOf(st, TRUE)

\* ------------------------------------------------------------------------
\* Initial states
\* ------------------------------------------------------------------------
NoEv == [ev |-> "none", v |-> "-"]
\* what the handler of the destroyed event finds; "-" before it has run
NoSnapshot == [state |-> "-", mounted |-> FALSE, isDestroyed |-> FALSE, listening |-> FALSE,
               pending |-> {}, notices |-> {}]
NoRet == [op |-> "none", id |-> 0, ret |-> FALSE]
NoGate == [seen |-> FALSE, origin |-> <<>>, source |-> NoWindow, shape |-> "-",
           originOk |-> FALSE, originOkKo |-> FALSE, reached |-> "none", changed |-> FALSE]
\* no surface was created yet and readyResolver is null
NoHs == [call |-> 0, resolver |-> 0]
\* hs.call is the call whose waitForIframeLoad installed iframe.onload on the
\* mounted surface, hs.resolver the call this.readyResolver resumes (0: null)

\* new IframeHost(config): super(origin, timeout); setupHandlers()
HostInitOf(origin, prod, callset, idset) ==
  /\ rm = RMInit(idset)
  /\ rmRet = NoRet
  /\ firstEv = [i \in idset |-> NoEv]
  /\ nextId = 0
  /\ handlers = [t \in InTypes |-> IF t \in HandledTypes THEN "host" ELSE "none"]
  /\ allowedOrigin = origin
  /\ allowedSource = NoWindow
  /\ listening = FALSE
  /\ destroyed = FALSE
  /\ production = prod
  /\ gate = NoGate
  /\ state = "idle"
  /\ iframe = FALSE
  /\ overlayShown = FALSE
  /\ readyResolver = FALSE
  /\ hs = NoHs
  /\ calls = [c \in callset |-> NewCall]
  /\ posted = {}
  /\ seen = [load |-> FALSE, ready |-> FALSE]
  /\ eventHandlers = {}
  /\ events = [error |-> 0, destroyed |-> 0, handled |-> {}, raised |-> FALSE,
               uncaught |-> FALSE, atDestroyed |-> NoSnapshot]
  /\ contentWindow = FALSE

HostInit(origin, prod) == HostInitOf(origin, prod, Calls, Ids)

\* the origin of config.iframeSrc
Init == HostInit(sHttpsVault, FALSE) /\ WMInit(NoStorage)

\* ------------------------------------------------------------------------
\* Host operations
\* ------------------------------------------------------------------------
\* history: the first thing that happens to a registered, unsettled id
Note(fe, r, ids, e) ==
  [i \in DOMAIN fe |->
     IF i \in ids /\ r.promise[i].st # "unreg" /\ fe[i].ev = "none" THEN e ELSE fe[i]]

\* createMessage(t, pl); postToIframe(message); requestManager.register(message.id)
\* and the suspension of call c on the returned promise; sn: what the host has
\* observed of the surface by the time the message is posted
Send(c, op, t, pl, hideFlag, sn) ==
  LET id == nextId + 1 IN
  /\ nextId' = id
  /\ IF contentWindow
     THEN /\ posted' = posted \cup {PostRec(t, id, pl, sn)}
          /\ rm' = register(rm, id)
          /\ calls' = [calls EXCEPT ![c] = Awaiting(op, id, hideFlag)]
     ELSE /\ posted' = posted
          /\ rm' = rm
          /\ calls' = [calls EXCEPT ![c] = Threw(op, "NOT_INITIALIZED")]

\* the states ensureIframeReady lets through
ensureStates == {"loading", "idle", "ready"}

\* connectWithSignerType up to its first await: ensureIframeReady throws, or
\* mounts the surface and waits for its load signal, or (surface mounted) returns
\* and the call yields at `await this.ensureIframeReady()`
connectWithSignerType(c) ==
  /\ IsNext(c)
  /\ IF state \notin ensureStates
     THEN /\ calls' = [calls EXCEPT ![c] = Threw("connect", "NOT_INITIALIZED")]
          /\ UNCHANGED <<rm, nextId, posted, state, iframe, contentWindow, allowedSource,
                         listening, hs>>
     ELSE IF ~iframe
     THEN /\ state' = "loading"
          /\ iframe' = TRUE
          /\ contentWindow' = TRUE
          /\ allowedSource' = IframeWin
          /\ listening' = TRUE
          /\ hs' = [hs EXCEPT !.call = c]
          /\ calls' = [calls EXCEPT ![c] = [NewCall EXCEPT !.op = "connect", !.pc = "load", !.out = Waiting]]
          /\ UNCHANGED <<rm, nextId, posted>>
     ELSE /\ calls' = [calls EXCEPT ![c] = [NewCall EXCEPT !.op = "connect", !.pc = "ensure", !.out = Waiting]]
          /\ UNCHANGED <<rm, nextId, posted, state, iframe, contentWindow, allowedSource,
                         listening, hs>>
  /\ UNCHANGED <<rmRet, firstEv, handlers, allowedOrigin, destroyed, production, gate,
                 overlayShown, readyResolver, seen, eventHandlers, events>>

\* the connect calls whose continuation after `await this.ensureIframeReady()` is
\* queued
Yielded == {c \in DOMAIN calls : calls[c].pc = "ensure"}

\* the continuation of connectWithSignerType after `await this.ensureIframeReady()`
\* on a mounted host (lines 155-171): createMessage, postToIframe, register.
\* Continuations run in the order the calls were made.
connectResume(c) ==
  /\ c \in Yielded
  /\ \A d \in Yielded : c <= d
  /\ Send(c, "connect", "CONNECT", NoPayload, FALSE, seen)
  /\ UNCHANGED <<wmVars, rmRet, firstEv, chanVars, gate, state, iframe, contentWindow,
                 overlayShown, readyResolver, hs, seen, eventHandlers, events>>

\* a continuation is queued: the job queue is emptied before the event loop runs
\* the next task (a message event, a load event, a timer).  The continuations of
\* the manager are queued when the host call they await has settled.
ContinuationQueued ==
  \/ Yielded # {}
  \/ \E r \in Runs : /\ wmOps.runs[r].call # 0
                      /\ calls[wmOps.runs[r].call].pc = "done"
  \/ \E d \in Derives : /\ wmOps.derive[d].call # 0
                         /\ calls[wmOps.derive[d].call].pc = "done"
  \/ \E s \in Signs : /\ wmOps.sign[s].call # 0
                       /\ calls[wmOps.sign[s].call].pc = "done"
  \/ \E r \in Runs : wmOps.runs[r].init = "failed" \/ wmOps.runs[r].restore = "failed"

\* a call is suspended in waitForIframeLoad on the surface that is mounted now:
\* iframe.onload and iframe.onerror are the callbacks that wait installed
LoadWaiter == hs.call # 0 /\ calls[hs.call].pc = "load"

\* iframe.onload
iframeOnLoad ==
  /\ ~ContinuationQueued
  /\ iframe
  /\ contentWindow
  /\ seen' = [seen EXCEPT !.load = TRUE]
  /\ IF LoadWaiter
     THEN /\ hs' = [hs EXCEPT !.resolver = hs.call]
          /\ readyResolver' = TRUE
          /\ calls' = [calls EXCEPT ![hs.call].pc = "ready"]
     ELSE UNCHANGED <<hs, readyResolver, calls>>
  /\ UNCHANGED <<wmVars, contentWindow, rmVars, chanVars, gate, state, iframe, overlayShown, posted, eventHandlers, events>>

\* iframe.onerror
iframeOnError ==
  /\ ~ContinuationQueued
  /\ iframe
  /\ contentWindow
  /\ LoadWaiter
  /\ calls' = [calls EXCEPT ![hs.call] = Threw("connect", "SIGN_FAILED")]
  /\ UNCHANGED <<wmVars, contentWindow, rmVars, chanVars, gate, state, iframe, overlayShown, readyResolver, posted,
                 seen, eventHandlers, events, hs>>

\* a load timer that destroy() clears without settling the wait
loadTimeout_clearedByDestroy(c) ==
  /\ ~ContinuationQueued
  /\ calls[c].pc = "load"
  /\ state # "destroyed"
  /\ calls' = [calls EXCEPT ![c] = Threw("connect", "TIMEOUT")]
  /\ UNCHANGED <<wmVars, contentWindow, rmVars, chanVars, gate, state, iframe, overlayShown, readyResolver, posted,
                 seen, eventHandlers, events, hs>>

\* the 10000 ms timer of the waitForIframeLoad of call c: armed while the call is
\* suspended there, whatever became of the surface it was waiting for
loadTimeout(c) ==
  /\ ~ContinuationQueued
  /\ calls[c].pc = "load"
  /\ calls' = [calls EXCEPT ![c] = Threw("connect", "TIMEOUT")]
  /\ UNCHANGED <<wmVars, contentWindow, rmVars, chanVars, gate, state, iframe, overlayShown, readyResolver, posted,
                 seen, eventHandlers, events, hs>>

\* the 10000 ms timer of the waitForWorkerReady of call c: it sets
\* this.readyResolver = null, whichever wait installed the resolver
readyTimeout(c) ==
  /\ ~ContinuationQueued
  /\ calls[c].pc = "ready"
  /\ readyResolver' = FALSE
  /\ hs' = [hs EXCEPT !.resolver = 0]
  /\ calls' = [calls EXCEPT ![c] = Threw("connect", "TIMEOUT")]
  /\ UNCHANGED <<wmVars, contentWindow, rmVars, chanVars, gate, state, iframe, overlayShown, posted, seen,
                 eventHandlers, events>>

\* ------------------------------------------------------------------------
\* Inbound messages
\* ------------------------------------------------------------------------
\* a handleMessage without the source window check
GatePass_noSource(ev) ==
  IF ev.origin = windowLocationOrigin THEN FALSE
  ELSE IF ~isValidOrigin(ev.origin, allowedOrigin, production) THEN FALSE
  ELSE IF ~isValidMessage(ev.data) THEN FALSE
  ELSE TRUE

\* IframeChannelBase.handleMessage, the four early returns
GatePass(ev) ==
  IF ev.origin = windowLocationOrigin THEN FALSE
  ELSE IF allowedSource # NoWindow /\ ev.source # allowedSource THEN FALSE
  ELSE IF ~isValidOrigin(ev.origin, allowedOrigin, production) THEN FALSE
  ELSE IF ~isValidMessage(ev.data) THEN FALSE
  ELSE TRUE

\* what handleMessage hands the event to
Reached(ev) ==
  IF ~GatePass(ev) THEN "none"
  ELSE IF ev.data.type = "ERROR" THEN "rm"
  ELSE IF handlers[ev.data.type] # "none" THEN "handler"
  ELSE "none"

\* requestManager.resolve(rid, val) by a result handler, and the continuations
ResolveStep(rid, val, hideFirst) ==
  LET r2 == resolve(rm, rid, val)
      sh1 == IF hideFirst THEN hide(overlayShown, iframe) ELSE overlayShown
  IN /\ rm' = r2
     /\ firstEv' = Note(firstEv, rm, {rid}, [ev |-> "response", v |-> val])
     /\ calls' = Resume(calls, r2)
     /\ state' = StateAfter(state, calls, r2)
     /\ overlayShown' = ShownAfter(sh1, calls, r2)
     /\ UNCHANGED <<nextId, readyResolver, hs, posted, seen>>

\* requestManager.reject(rid, new IframeError(code, ...)) for an ERROR message
RejectStep(rid, code) ==
  LET r2 == reject(rm, rid, code)
  IN /\ rm' = r2
     /\ firstEv' = Note(firstEv, rm, {rid}, [ev |-> "error", v |-> code])
     /\ calls' = Resume(calls, r2)
     /\ state' = StateAfter(state, calls, r2)
     /\ overlayShown' = ShownAfter(overlayShown, calls, r2)
     /\ UNCHANGED <<nextId, readyResolver, hs, posted, seen>>

\* the READY handler, and connectWithSignerType resuming after the handshake:
\* the continuation posts CONNECT after the handler ran, READY observed
ReadyStep ==
  /\ seen' = [seen EXCEPT !.ready = TRUE]
  /\ IF readyResolver
     THEN /\ readyResolver' = FALSE
          /\ hs' = [hs EXCEPT !.resolver = 0]
          /\ Send(hs.resolver, "connect", "CONNECT", NoPayload, FALSE, [seen EXCEPT !.ready = TRUE])
     ELSE UNCHANGED <<readyResolver, hs, nextId, posted, rm, calls>>
  /\ UNCHANGED <<firstEv, state, overlayShown>>

\* a NEEDS_ONBOARDING handler that takes the session for connected
OnboardingStep_ready ==
  /\ overlayShown' = show(overlayShown, iframe)
  /\ state' = "ready"
  /\ UNCHANGED <<rm, firstEv, nextId, readyResolver, hs, calls, posted, seen>>

\* the NEEDS_ONBOARDING handler
OnboardingStep ==
  /\ overlayShown' = show(overlayShown, iframe)
  /\ UNCHANGED <<rm, firstEv, nextId, state, readyResolver, hs, calls, posted, seen>>

Dropped == UNCHANGED <<rm, firstEv, nextId, state, overlayShown, readyResolver, hs,
                       calls, posted, seen>>

\* handler kinds of the table: none, the host's own handler (setupHandlers), a
\* handler of the dApp that returns ("user") or raises ("throws")
UserHandlers == {"user", "throws"}

\* a dispatch without the try / catch: the exception leaves handleMessage
runHandler_noCatch(e, t, kind) ==
  [e EXCEPT !.handled = @ \cup {t}, !.raised = @ \/ kind = "throws",
            !.uncaught = @ \/ kind = "throws"]

\* try { handler(message, event.origin) } catch { } for a handler of the dApp:
\* what the dApp observes of it
runHandler(e, t, kind) ==
  [e EXCEPT !.handled = @ \cup {t}, !.raised = @ \/ kind = "throws"]

\* a dispatch that also hands ERROR messages to the table's handler
ToUserHandler_errorToo(ev) ==
  /\ GatePass(ev)
  /\ handlers[ev.data.type] \in UserHandlers

\* the handler handleMessage calls for the event is one of the dApp
ToUserHandler(ev) ==
  /\ GatePass(ev)
  /\ ev.data.type # "ERROR"
  /\ handlers[ev.data.type] \in UserHandlers

\* the ERROR branch reads payload.requestId of a payload that is null: a
\* TypeError, outside any try block
ErrorPayloadThrows(ev) ==
  /\ GatePass(ev)
  /\ ev.data.type = "ERROR"
  /\ ev.data.pl = "null"

handleMessage(ev) ==
  /\ ~ContinuationQueued
  /\ listening
  /\ events' = IF ErrorPayloadThrows(ev) THEN [events EXCEPT !.uncaught = TRUE]
               ELSE IF ToUserHandler(ev)
               THEN runHandler(events, ev.data.type, handlers[ev.data.type])
               ELSE events
  /\ IF ~GatePass(ev) THEN Dropped
     ELSE IF ErrorPayloadThrows(ev) THEN Dropped
     ELSE IF ev.data.type = "ERROR"
     THEN IF ev.data.pl = "norid" THEN Dropped
          ELSE RejectStep(ev.data.rid, ev.data.val)
     ELSE IF handlers[ev.data.type] = "none" THEN Dropped
     ELSE IF handlers[ev.data.type] \in UserHandlers THEN Dropped
     ELSE IF ev.data.type = "READY" THEN ReadyStep
     \* a result handler reading payload.requestId of null throws inside the try
     ELSE IF ev.data.type \in ResultTypes /\ ev.data.pl = "null" THEN Dropped
     ELSE IF ev.data.type = "CONNECT_RESULT" THEN ResolveStep(ev.data.rid, ev.data.val, TRUE)
     ELSE IF ev.data.type = "NEEDS_ONBOARDING" THEN OnboardingStep
     ELSE ResolveStep(ev.data.rid, ev.data.val, FALSE)
  /\ UNCHANGED <<contentWindow, rmRet, chanVars, iframe, eventHandlers>>

Event(o, src, d) == [origin |-> o, source |-> src, data |-> d]

\* Message events delivered to the dApp window while a host is running: every
\* message from the mounted surface, and probes that differ from a message of the
\* surface in one respect (origin, source window, shape of the data).
HostIds == 0..MaxCalls
HostMessages == {m \in Messages : m.rid \in HostIds}
Probes == {Msg("READY", 0, "-"), Msg("CONNECT_RESULT", 1, "d1"), Msg("ERROR", 1, "USER_CANCELLED")}
HostEvents == {Event(sHttpsVault, IframeWin, d) : d \in HostMessages}
              \cup {Event(o, IframeWin, d) : o \in {sHttpEvil, sHttpsDapp}, d \in Probes}
              \cup {Event(sHttpsVault, OtherWin, d) : d \in Probes}
              \cup {Event(sHttpsVault, IframeWin, d) : d \in Junks}

inbound ==
  /\ \E ev \in HostEvents : handleMessage(ev)
  /\ UNCHANGED <<gate, wmVars>>

\* the setTimeout callback of register(id)
requestTimeout(id) ==
  /\ ~ContinuationQueued
  /\ id \in rm.timers
  /\ LET r2 == onTimeout(rm, id)
     IN /\ rm' = r2
        /\ firstEv' = Note(firstEv, rm, {id}, [ev |-> "timeout", v |-> "TIMEOUT"])
        /\ calls' = Resume(calls, r2)
        /\ state' = StateAfter(state, calls, r2)
        /\ overlayShown' = ShownAfter(overlayShown, calls, r2)
  /\ UNCHANGED <<wmVars, contentWindow, rmRet, nextId, chanVars, gate, iframe, readyResolver, hs, posted, seen,
                 eventHandlers, events>>

\* ------------------------------------------------------------------------
\* Sign / derive / destroy
\* ------------------------------------------------------------------------
\* assertReady
assertReady(st) == st = "ready"

\* a signWithPasskey that shows the surface before its checks
signWithPasskey_showFirst(c, hash, keyId) ==
  /\ IsNext(c)
  /\ overlayShown' = show(overlayShown, iframe)
  /\ IF ~assertReady(state)
     THEN /\ calls' = [calls EXCEPT ![c] = Threw("signPasskey", "NOT_INITIALIZED")]
          /\ UNCHANGED <<rm, nextId, posted>>
     ELSE IF ~isHex(hash) \/ ~isHex(keyId)
     THEN /\ calls' = [calls EXCEPT ![c] = Threw("signPasskey", "VALIDATION_FAILED")]
          /\ UNCHANGED <<rm, nextId, posted>>
     ELSE Send(c, "signPasskey", "SIGN_WITH_PASSKEY", NoPayload, TRUE, seen)
  /\ UNCHANGED <<wmVars, contentWindow, rmRet, firstEv, chanVars, gate, state, iframe,
                 readyResolver, hs, seen, eventHandlers, events>>

signWithPasskey(c, hash, keyId) ==
  /\ IsNext(c)
  /\ IF ~assertReady(state)
     THEN /\ calls' = [calls EXCEPT ![c] = Threw("signPasskey", "NOT_INITIALIZED")]
          /\ UNCHANGED <<rm, nextId, posted, overlayShown>>
     ELSE IF ~isHex(hash) \/ ~isHex(keyId)
     THEN /\ calls' = [calls EXCEPT ![c] = Threw("signPasskey", "VALIDATION_FAILED")]
          /\ UNCHANGED <<rm, nextId, posted, overlayShown>>
     ELSE /\ overlayShown' = show(overlayShown, iframe)
          /\ Send(c, "signPasskey", "SIGN_WITH_PASSKEY", NoPayload, TRUE, seen)
  /\ UNCHANGED <<wmVars, contentWindow, rmRet, firstEv, chanVars, gate, state, iframe, readyResolver, hs, seen,
                 eventHandlers, events>>

\* !!options.address
hasAddress(address) == address # "undef"
\* a test that takes a group alone for a group and keyIndex pair
hasGroupKey_groupOnly(group, keyIndex) == group # "undef"

\* !!(options.group && options.keyIndex !== undefined)
hasGroupKey(group, keyIndex) == group # "undef" /\ keyIndex.def

\* the pre-checks of signWithDerivation after assertReady: the error code or "ok"
derivationCheck(hash, address, group, keyIndex) ==
  IF ~isHex(hash) THEN "VALIDATION_FAILED"
  ELSE IF hasAddress(address) = hasGroupKey(group, keyIndex) THEN "VALIDATION_FAILED"
  ELSE IF hasAddress(address) /\ has0x(address) /\ ~isAddress(address) THEN "VALIDATION_FAILED"
  ELSE IF keyIndex.def /\ (LtNum(keyIndex.n, Zero) \/ LtNum(MaxKeyIndex, keyIndex.n)) THEN "VALIDATION_FAILED"
  ELSE "ok"

signWithDerivation(c, hash, address, group, keyIndex, conf) ==
  /\ IsNext(c)
  /\ IF ~assertReady(state)
     THEN /\ calls' = [calls EXCEPT ![c] = Threw("signDerivation", "NOT_INITIALIZED")]
          /\ UNCHANGED <<rm, nextId, posted, overlayShown>>
     ELSE IF derivationCheck(hash, address, group, keyIndex) # "ok"
     THEN /\ calls' = [calls EXCEPT ![c] =
                         Threw("signDerivation", derivationCheck(hash, address, group, keyIndex))]
          /\ UNCHANGED <<rm, nextId, posted, overlayShown>>
     ELSE /\ overlayShown' = IF conf THEN show(overlayShown, iframe) ELSE overlayShown
          /\ Send(c, "signDerivation", "SIGN_WITH_DERIVATION",
                  [address |-> address, group |-> group, keyIndex |-> keyIndex], conf, seen)
  /\ UNCHANGED <<contentWindow, rmRet, firstEv, chanVars, gate, state, iframe, readyResolver, hs, seen,
                 eventHandlers, events>>

deriveAddress(c) ==
  /\ IsNext(c)
  /\ IF ~assertReady(state)
     THEN /\ calls' = [calls EXCEPT ![c] = Threw("derive", "NOT_INITIALIZED")]
          /\ UNCHANGED <<rm, nextId, posted>>
     ELSE Send(c, "derive", "DERIVE_ADDRESS", NoPayload, FALSE, seen)
  /\ UNCHANGED <<contentWindow, rmRet, firstEv, chanVars, gate, state, iframe, overlayShown, readyResolver,
                 hs, seen, eventHandlers, events>>

\* IframeHost.onEvent
HostEventNames == {"error", "destroyed"}
onEvent(e) ==
  /\ e \notin eventHandlers
  /\ eventHandlers' = eventHandlers \cup {e}
  /\ UNCHANGED <<wmVars, contentWindow, rmVars, chanVars, gate, state, iframe, overlayShown, readyResolver, hs,
                 calls, posted, seen, events>>

\* how a callback of the dApp ends
HandlerOutcomes == {"returns", "throws"}

\* the destroyed event handler is invoked only when one is registered
destroyedOutcomes == IF "destroyed" \in eventHandlers THEN HandlerOutcomes ELSE {"returns"}

\* the DESTROY notice of destroy(): posted, or postMessage throws and the catch
\* block ignores it; not attempted unless the host is ready with a content window
NoticeOutcomes ==
  IF state = "ready" /\ contentWindow THEN {"posted", "failed"} ELSE {"skipped"}

\* a destroy() that fires the destroyed event before it tears anything down
AtDestroyedEvent_first(notices) ==
  [state |-> state, mounted |-> iframe, isDestroyed |-> destroyed, listening |-> listening,
   pending |-> rm.pending, notices |-> {}]

\* what this.eventHandlers.destroyed?.() finds (line 390): the notice was tried
\* (371-378), overlay and iframe are gone (380-386), state is "destroyed" (388),
\* super.destroy() has not run yet (392)
AtDestroyedEvent(notices) ==
  [state |-> "destroyed", mounted |-> FALSE, isDestroyed |-> destroyed,
   listening |-> listening, pending |-> rm.pending, notices |-> notices]

\* IframeHost.destroy up to this.eventHandlers.destroyed?.(), and, when the handler
\* returns, IframeChannelBase.destroy; a handler that throws ends destroy() there
destroy ==
  IF destroyed THEN UNCHANGED hostVars
  ELSE
       \E outcome \in destroyedOutcomes, notice \in NoticeOutcomes :
       LET r2 == cancelAll(rm)
           posted2 == IF notice = "posted"
                      THEN posted \cup {PostRec("DESTROY", nextId + 1, NoPayload, seen)}
                      ELSE posted
       IN /\ "destroyed" \in eventHandlers => events.destroyed < MaxEvents
          /\ nextId' = IF notice = "skipped" THEN nextId ELSE nextId + 1
          /\ posted' = posted2
          /\ iframe' = FALSE
          /\ contentWindow' = FALSE
          /\ overlayShown' = FALSE
          /\ state' = "destroyed"
          /\ events' = IF "destroyed" \in eventHandlers
                       THEN [events EXCEPT !.destroyed = @ + 1,
                                           !.atDestroyed = AtDestroyedEvent(
                                              {m \in posted2 : m.type = "DESTROY"})]
                       ELSE events
          /\ IF outcome = "throws"
             THEN UNCHANGED <<destroyed, listening, rm, firstEv, handlers, calls>>
             ELSE /\ destroyed' = TRUE
                  /\ listening' = FALSE
                  /\ rm' = r2
                  /\ firstEv' = Note(firstEv, rm, rm.pending, [ev |-> "cancel", v |-> "DESTROYED"])
                  /\ handlers' = [t \in InTypes |-> "none"]
                  /\ calls' = Resume(calls, r2)
          /\ UNCHANGED <<rmRet, allowedOrigin, allowedSource, production, gate,
                         readyResolver, hs, seen, eventHandlers>>

\* ------------------------------------------------------------------------
\* The session host driven by the dApp, the peer and the timers
\* ------------------------------------------------------------------------
\* the dApp may register handlers of the host's events (onEvent); the handler of
\* the destroyed event returns or throws
Next ==
  \/ \E e \in HostEventNames : onEvent(e)
  \/ \E c \in Calls : connectWithSignerType(c) /\ UNCHANGED wmVars
  \/ \E c \in Calls : connectResume(c)
  \/ \E c \in Calls, h \in HexInputs, k \in HexInputs : signWithPasskey(c, h, k)
  \/ \E c \in Calls, h \in HexInputs, a \in AddressInputs, g \in GroupInputs,
        k \in KeyIndexInputs, conf \in BOOLEAN :
        signWithDerivation(c, h, a, g, k, conf) /\ UNCHANGED wmVars
  \/ \E c \in Calls : deriveAddress(c) /\ UNCHANGED wmVars
  \/ iframeOnLoad
  \/ iframeOnError
  \/ \E c \in Calls : loadTimeout(c)
  \/ \E c \in Calls : readyTimeout(c)
  \/ inbound
  \/ \E id \in Ids : requestTimeout(id)
  \/ destroy /\ UNCHANGED wmVars

Spec == Init /\ [][Next]_vars

TypeOK ==
  /\ state \in {"idle", "loading", "ready", "error", "destroyed"}
  /\ rm.pending \subseteq Ids
  /\ rm.timers \subseteq Ids
  /\ nextId \in 0..IdBound
  /\ overlayShown \in BOOLEAN

\* ------------------------------------------------------------------------
\* The RequestManager of a channel driven directly
\* ------------------------------------------------------------------------
restVars == <<handlers, allowedOrigin, allowedSource, listening, production, gate, state,
              iframe, overlayShown, readyResolver, hs, calls, posted, seen, eventHandlers,
              events, contentWindow, wm, storage, wmOps>>

rmRegister ==
  /\ nextId < MaxIds
  /\ nextId' = nextId + 1
  /\ rm' = register(rm, nextId + 1)
  /\ UNCHANGED <<rmRet, firstEv, destroyed, restVars>>

rmResolve(id, data) ==
  /\ rm' = resolve(rm, id, data)
  /\ rmRet' = [op |-> "resolve", id |-> id, ret |-> found(rm, id)]
  /\ firstEv' = Note(firstEv, rm, {id}, [ev |-> "response", v |-> data])
  /\ UNCHANGED <<nextId, destroyed, restVars>>

rmReject(id, code) ==
  /\ rm' = reject(rm, id, code)
  /\ rmRet' = [op |-> "reject", id |-> id, ret |-> found(rm, id)]
  /\ firstEv' = Note(firstEv, rm, {id}, [ev |-> "error", v |-> code])
  /\ UNCHANGED <<nextId, destroyed, restVars>>

rmTimeout(id) ==
  /\ id \in rm.timers
  /\ rm' = onTimeout(rm, id)
  /\ firstEv' = Note(firstEv, rm, {id}, [ev |-> "timeout", v |-> "TIMEOUT"])
  /\ UNCHANGED <<rmRet, nextId, destroyed, restVars>>

\* IframeChannelBase.destroy on a channel that was never mounted
channelDestroy ==
  /\ IF destroyed THEN UNCHANGED <<rm, firstEv, destroyed, handlers, listening>>
     ELSE /\ destroyed' = TRUE
          /\ listening' = FALSE
          /\ rm' = cancelAll(rm)
          /\ firstEv' = Note(firstEv, rm, rm.pending, [ev |-> "cancel", v |-> "DESTROYED"])
          /\ handlers' = [t \in InTypes |-> "none"]
  /\ UNCHANGED <<rmRet, nextId, allowedOrigin, allowedSource, production, gate, state,
                 iframe, overlayShown, readyResolver, hs, calls, posted, seen, eventHandlers,
                 events, contentWindow, wm, storage, wmOps>>

NextRM ==
  \/ rmRegister
  \/ \E id \in Ids, d \in Data : rmResolve(id, d)
  \/ \E id \in Ids, code \in PeerCodes : rmReject(id, code)
  \/ \E id \in Ids : rmTimeout(id)
  \/ channelDestroy

SpecRM == Init /\ [][NextRM]_vars

\* ------------------------------------------------------------------------
\* The gate of a channel constructed with any allowed-origin policy
\* ------------------------------------------------------------------------
AllowedOrigins == {sStar, sLocalhost, sHttpsVault}

InitGate == /\ \E o \in AllowedOrigins, p \in BOOLEAN : HostInit(o, p)
            /\ WMInit(NoStorage)

\* every origin and source window with a result and an ERROR for request 1, and
\* every shape of data from the origins the policies are meant to admit
GateProbes == {Msg("CONNECT_RESULT", 1, "d1"), Msg("ERROR", 1, "USER_CANCELLED")}
GateData == {Msg("READY", 0, "-"), Msg("CONNECT", 0, "-")} \cup Junks
GateEvents == {Event(o, src, d) : o \in Origins, src \in {IframeWin, OtherWin}, d \in GateProbes}
              \cup {Event(o, IframeWin, d) : o \in {sHttpsVault, sHttpLocalhost4000}, d \in GateData}

gateInbound ==
  \E ev \in GateEvents :
    /\ handleMessage(ev)
    /\ UNCHANGED wmVars
    /\ gate' = [seen |-> TRUE, origin |-> ev.origin, source |-> ev.source,
                shape |-> ev.data.shape,
                originOk |-> isValidOrigin(ev.origin, allowedOrigin, production),
                originOkKo |-> isValidOriginKo(ev.origin, allowedOrigin, production),
                reached |-> Reached(ev),
                changed |-> <<rm, state, calls, overlayShown, readyResolver, hs, posted, nextId>>'
                            # <<rm, state, calls, overlayShown, readyResolver, hs, posted, nextId>>]

NextGate ==
  \/ \E c \in Calls : connectWithSignerType(c) /\ UNCHANGED wmVars
  \/ \E c \in Calls : connectResume(c)
  \/ iframeOnLoad
  \/ gateInbound

SpecGate == InitGate /\ [][NextGate]_vars

\* ------------------------------------------------------------------------
\* The host on a page that can take the overlay element out of the document
\* ------------------------------------------------------------------------
\* the overlay (and the iframe in it) is removed from document.body by the page:
\* iframe.contentWindow becomes null, this.iframe and this.overlay stay set
overlayDetached ==
  /\ contentWindow
  /\ contentWindow' = FALSE
  /\ UNCHANGED <<wmVars, rmVars, chanVars, gate, state, iframe, overlayShown, readyResolver,
                 hs, calls, posted, seen, eventHandlers, events>>

NextUi ==
  \/ Next
  \/ overlayDetached

SpecUi == Init /\ [][NextUi]_vars

\* ------------------------------------------------------------------------
\* The host whose dApp also uses the channel's on / off
\* ------------------------------------------------------------------------
\* message types the dApp registers handlers for
UserTypes == {"READY", "ERROR"}

\* IframeChannelBase.on(type, handler)
on(t, kind) ==
  /\ handlers[t] # kind
  /\ handlers' = [handlers EXCEPT ![t] = kind]
  /\ UNCHANGED <<wmVars, contentWindow, rmVars, allowedOrigin, allowedSource, listening,
                 destroyed, production, gate, state, iframe, overlayShown, readyResolver,
                 hs, calls, posted, seen, eventHandlers, events>>

\* IframeChannelBase.off
off(t) ==
  /\ handlers[t] # "none"
  /\ handlers' = [handlers EXCEPT ![t] = "none"]
  /\ UNCHANGED <<wmVars, contentWindow, rmVars, allowedOrigin, allowedSource, listening,
                 destroyed, production, gate, state, iframe, overlayShown, readyResolver,
                 hs, calls, posted, seen, eventHandlers, events>>

NextChan ==
  \/ \E c \in Calls : connectWithSignerType(c) /\ UNCHANGED wmVars
  \/ \E c \in Calls : connectResume(c)
  \/ \E c \in Calls : deriveAddress(c) /\ UNCHANGED wmVars
  \/ iframeOnLoad
  \/ inbound
  \/ destroy /\ UNCHANGED wmVars
  \/ \E t \in UserTypes, kind \in UserHandlers : on(t, kind)
  \/ \E t \in UserTypes : off(t)

SpecChan == Init /\ [][NextChan]_vars

\* ------------------------------------------------------------------------
\* HostWalletManager over its host
\* ------------------------------------------------------------------------
setState(w, newState) ==
  IF w.state = newState THEN w
  ELSE IF w.state = "destroyed" THEN w
  ELSE [w EXCEPT !.state = newState]

\* the calls a manager makes on its host: per run of initialize() the connect, the
\* primary derive and the restore derives, and one per deriveAddress call
MaxRestores == 2
WMCalls == 1..((2 + MaxRestores) * MaxRuns + MaxDerives + MaxSigns)
WMIds == 1..((2 + MaxRestores) * MaxRuns + MaxDerives + MaxSigns + 1)

\* the next run of initialize()
IsNextRun(r) == /\ wmOps.runs[r].init = "new"
                /\ \A q \in Runs : q < r => wmOps.runs[q].init # "new"

\* the host call awaited by run r / by deriveAddress call d has settled: the
\* continuation of the manager is queued
RunResumes(r) == /\ wmOps.runs[r].call # 0
                 /\ calls[wmOps.runs[r].call].pc = "done"
DeriveResumes(d) == /\ wmOps.derive[d].call # 0
                    /\ calls[wmOps.derive[d].call].pc = "done"
SignResumes(s) == /\ wmOps.sign[s].call # 0
                  /\ calls[wmOps.sign[s].call].pc = "done"

\* initialize() up to `await this.host.connectWithSignerType(...)`, the host's
\* connectWithSignerType up to its first await included
initialize(r) ==
  /\ IsNextRun(r)
  /\ IF wm.state # "idle"
     THEN UNCHANGED <<wm, wmOps, hostVars>>
     ELSE /\ wm' = setState(wm, "connecting")
          /\ \E c \in DOMAIN calls :
               /\ connectWithSignerType(c)
               /\ wmOps' = [wmOps EXCEPT !.runs[r].init = "connect", !.runs[r].call = c]
  /\ UNCHANGED storage

\* reinitialize() up to the await inside the initialize() it calls
reinitialize(r) ==
  /\ IsNextRun(r)
  /\ wm' = setState([state |-> "idle", addresses |-> <<>>, currentAddress |-> "null",
                     currentKeyIndex |-> 0], "connecting")
  /\ storage' = clearCachedAddresses(storage)
  /\ \E c \in DOMAIN calls :
       /\ connectWithSignerType(c)
       /\ wmOps' = [wmOps EXCEPT !.runs[r].init = "connect", !.runs[r].call = c]

\* a message of the mounted surface reaches the host
FromPeer(d) == handleMessage(Event(sHttpsVault, IframeWin, d))

\* the request of call c is pending at the peer
AtPeer(c) == calls[c].pc = "req" /\ calls[c].id \in rm.pending

\* the peer sends READY
peerReady ==
  /\ FromPeer(Msg("READY", 0, "-"))
  /\ UNCHANGED <<gate, wmVars>>

\* the peer answers the CONNECT of run r with NEEDS_ONBOARDING: the host's
\* handler shows the surface, the promise the manager awaits stays pending
peerNeedsOnboarding(r) ==
  /\ wmOps.runs[r].init = "connect"
  /\ AtPeer(wmOps.runs[r].call)
  /\ FromPeer(Msg("NEEDS_ONBOARDING", 0, "-"))
  /\ wmOps' = [wmOps EXCEPT !.runs = [q \in Runs |->
                 IF wmOps.runs[q].init = "connect"
                 THEN [wmOps.runs[q] EXCEPT !.init = "onboarding"]
                 ELSE wmOps.runs[q]]]
  /\ UNCHANGED <<gate, wm, storage>>

\* the peer answers the request of call c with the result message of its type,
\* carrying the data d
peerResult(c, d) ==
  /\ AtPeer(c)
  /\ FromPeer(Msg(IF calls[c].op = "connect" THEN "CONNECT_RESULT"
                  ELSE IF calls[c].op = "derive" THEN "DERIVE_ADDRESS_RESULT"
                  ELSE "SIGN_RESULT", calls[c].id, d))
  /\ UNCHANGED <<gate, wmVars>>

\* the peer answers the request of call c with an ERROR message
peerError(c, e) ==
  /\ AtPeer(c)
  /\ FromPeer(Msg("ERROR", calls[c].id, e))
  /\ UNCHANGED <<gate, wmVars>>

\* the test of the catch block of initialize()
isNoWalletError(out) ==
  /\ out.st = "rejected"
  /\ out.code = "NOT_INITIALIZED"
  /\ includes(out.message, sNoWallet)

\* the connect promise of run r has settled with out: initializeFirstAddress up
\* to its first await (host.deriveAddress up to its await included), or the catch
\* block of initialize.  An exception inside initializeFirstAddress is caught by
\* its own catch block (onError, rethrow), which rejects the promise initialize
\* awaits: the catch block of initialize runs as a later job.
connectSettled(r, out) ==
  /\ wmOps.runs[r].init \in {"connect", "onboarding"}
  /\ RunResumes(r)
  /\ out = ConnectOutcome(calls[wmOps.runs[r].call].out)
  /\ IF out.st = "resolved"
     THEN LET ld == loadCachedAddresses(storage)
          IN IF ld.threw
             THEN /\ wmOps' = [wmOps EXCEPT !.runs[r].init = "failed",
                                            !.runs[r].errors = @ + 1,
                                            !.runs[r].error = OtherError,
                                            !.runs[r].call = 0]
                  /\ UNCHANGED <<wm, hostVars>>
             ELSE /\ \E c \in DOMAIN calls :
                       /\ deriveAddress(c)
                       /\ wmOps' = [wmOps EXCEPT !.runs[r].init = "primary",
                                                 !.runs[r].cached = ld.list,
                                                 !.runs[r].call = c]
                  /\ wm' = wm
     ELSE IF isNoWalletError(out)
     THEN /\ wm' = setState(wm, "no_wallet")
          /\ wmOps' = [wmOps EXCEPT !.runs[r].init = "returned",
                                     !.runs[r].onboarding = @ + 1,
                                     !.runs[r].call = 0]
          /\ UNCHANGED hostVars
     ELSE /\ wm' = wm
          /\ wmOps' = [wmOps EXCEPT !.runs[r].init = "threw",
                                     !.runs[r].errors = @ + 1,
                                     !.runs[r].call = 0]
          /\ UNCHANGED hostVars
  /\ UNCHANGED storage

\* the promise of the primary derive of run r has settled with out: the rest of
\* initializeFirstAddress, and restoreCachedAddressesFromList up to its first
\* await; without a record (the promise is rejected, or result.address is
\* undefined and reading its keyIndex a TypeError) the catch block of
\* initializeFirstAddress
primarySettled(r, out) ==
  /\ wmOps.runs[r].init = "primary"
  /\ RunResumes(r)
  /\ out = DeriveOutcome(calls[wmOps.runs[r].call].out)
  /\ IF ~hasRecord(out)
     THEN /\ wm' = wm
          /\ wmOps' = [wmOps EXCEPT !.runs[r].init = "failed",
                                     !.runs[r].errors = @ + 1,
                                     !.runs[r].error =
                                        IF out.st = "rejected"
                                        THEN [st |-> "rejected", code |-> out.code,
                                              message |-> out.message]
                                        ELSE OtherError,
                                     !.runs[r].call = 0]
          /\ UNCHANGED <<storage, hostVars>>
     ELSE LET info == out.address
              cached == wmOps.runs[r].cached
              w1 == setState([wm EXCEPT !.addresses = <<info>>,
                                        !.currentAddress = info.address,
                                        !.currentKeyIndex = info.keyIndex], "ready")
              toRestore == FilterNotIn(cached, w1.addresses)
          IN /\ wm' = w1
             /\ IF Len(cached) > 1 /\ filterThrows(cached, w1.addresses)
                THEN /\ wmOps' = [wmOps EXCEPT !.runs[r].init = "returned",
                                               !.runs[r].restore = "failed",
                                               !.runs[r].call = 0]
                     /\ UNCHANGED <<storage, hostVars>>
                ELSE IF Len(cached) > 1 /\ toRestore # <<>>
                THEN /\ \E c \in DOMAIN calls :
                          /\ deriveAddress(c)
                          /\ wmOps' = [wmOps EXCEPT !.runs[r].init = "returned",
                                                    !.runs[r].restore = "derive",
                                                    !.runs[r].todo = toRestore,
                                                    !.runs[r].call = c]
                     /\ storage' = storage
                ELSE /\ wmOps' = [wmOps EXCEPT !.runs[r].init = "returned",
                                               !.runs[r].restore = "done",
                                               !.runs[r].call = 0]
                     /\ storage' = saveCachedAddresses(storage, w1.addresses)
                     /\ UNCHANGED hostVars

\* the catch block of initialize() for the error initializeFirstAddress rejected
\* with
initializeCatch(r) ==
  /\ wmOps.runs[r].init = "failed"
  /\ IF isNoWalletError(wmOps.runs[r].error)
     THEN /\ wm' = setState(wm, "no_wallet")
          /\ wmOps' = [wmOps EXCEPT !.runs[r].init = "returned",
                                     !.runs[r].onboarding = @ + 1]
     ELSE /\ wm' = wm
          /\ wmOps' = [wmOps EXCEPT !.runs[r].init = "threw",
                                     !.runs[r].errors = @ + 1]
  /\ UNCHANGED <<storage, hostVars>>

\* the catch callback on the promise of restoreCachedAddressesFromList
restoreCatch(r) ==
  /\ wmOps.runs[r].restore = "failed"
  /\ storage' = saveCachedAddresses(storage, wm.addresses)
  /\ wmOps' = [wmOps EXCEPT !.runs[r].restore = "done"]
  /\ UNCHANGED <<wm, hostVars>>

\* the promise of a restore derive of run r has settled with out: one turn of the
\* loop of restoreCachedAddressesFromList up to the await of the next turn, or
\* the save after the last turn
restoreSettled(r, out) ==
  /\ wmOps.runs[r].restore = "derive"
  /\ RunResumes(r)
  /\ out = DeriveOutcome(calls[wmOps.runs[r].call].out)
  /\ LET info == out.address
         existingIndex == FindIndex([i \in 1..Len(wm.addresses) |->
                                      KeyOf(wm.addresses[i]) = KeyOf(info)])
         list2 == IF hasRecord(out) /\ existingIndex = 0
                  THEN Append(wm.addresses, info) ELSE wm.addresses
         rest == Tail(wmOps.runs[r].todo)
     IN /\ wm' = [wm EXCEPT !.addresses = list2]
        /\ IF rest = <<>>
           THEN /\ wmOps' = [wmOps EXCEPT !.runs[r].restore = "done",
                                          !.runs[r].todo = rest,
                                          !.runs[r].call = 0]
                /\ storage' = saveCachedAddresses(storage, list2)
                /\ UNCHANGED hostVars
           ELSE /\ \E c \in DOMAIN calls :
                     /\ deriveAddress(c)
                     /\ wmOps' = [wmOps EXCEPT !.runs[r].todo = rest, !.runs[r].call = c]
                /\ storage' = storage

\* the runs whose restore loop awaits the answer to a DERIVE_ADDRESS request
RestorePending == {r \in Runs : wmOps.runs[r].restore = "derive"}

\* the next deriveAddress call of the application
IsNextDerive(d) == /\ wmOps.derive[d].pc = "new"
                   /\ \A e \in Derives : e < d => wmOps.derive[e].pc # "new"

\* HostWalletManager.deriveAddress(keyIndex, options) up to its await
wmDeriveAddress(d, keyIndex) ==
  /\ IsNextDerive(d)
  /\ IF wm.state # "ready"
     THEN /\ wmOps' = [wmOps EXCEPT !.derive[d] =
                         [pc |-> "done", keyIndex |-> keyIndex, out |-> "NOT_INITIALIZED",
                          call |-> 0]]
          /\ UNCHANGED hostVars
     ELSE \E c \in DOMAIN calls :
            /\ deriveAddress(c)
            /\ wmOps' = [wmOps EXCEPT !.derive[d] =
                           [pc |-> "req", keyIndex |-> keyIndex, out |-> "-", call |-> c]]
  /\ UNCHANGED <<wm, storage>>

\* the insert-or-replace of deriveAddress
insertOrReplace(list, keyIndex, info) ==
  LET existingIndex == FindIndex([i \in 1..Len(list) |->
                                   /\ list[i].keyIndex = keyIndex
                                   /\ list[i].group = info.group
                                   /\ list[i].bitcoinNetwork = info.bitcoinNetwork])
  IN IF existingIndex > 0 THEN [list EXCEPT ![existingIndex] = info]
     ELSE Append(list, info)

\* the promise awaited by deriveAddress call d has settled with out
deriveSettled(d, out) ==
  /\ wmOps.derive[d].pc = "req"
  /\ DeriveResumes(d)
  /\ out = DeriveOutcome(calls[wmOps.derive[d].call].out)
  /\ IF out.st = "rejected"
     THEN /\ wmOps' = [wmOps EXCEPT !.derive[d].pc = "done", !.derive[d].out = out.code,
                                    !.derive[d].call = 0]
          /\ UNCHANGED <<wm, storage>>
     ELSE IF ~out.success \/ out.address = NoRec
     THEN /\ wmOps' = [wmOps EXCEPT !.derive[d].pc = "done", !.derive[d].out = "SIGN_FAILED",
                                    !.derive[d].call = 0]
          /\ UNCHANGED <<wm, storage>>
     ELSE LET list2 == insertOrReplace(wm.addresses, wmOps.derive[d].keyIndex, out.address)
          IN /\ wm' = [wm EXCEPT !.addresses = list2]
             /\ storage' = saveCachedAddresses(storage, list2)
             /\ wmOps' = [wmOps EXCEPT !.derive[d].pc = "done",
                                        !.derive[d].out = out.address.address,
                                        !.derive[d].call = 0]
  /\ UNCHANGED hostVars

\* the next sign call of the application
IsNextSign(s) == /\ wmOps.sign[s].pc = "new"
                 /\ \A e \in Signs : e < s => wmOps.sign[e].pc # "new"

\* HostWalletManager.sign(hash, options) up to its await: the host's
\* signWithDerivation for the active address, up to its await
wmSign(s, requireConfirmation) ==
  /\ IsNextSign(s)
  /\ IF wm.state # "ready" \/ wm.currentAddress = "null"
     THEN /\ wmOps' = [wmOps EXCEPT !.sign[s] =
                         [pc |-> "done", out |-> "NOT_INITIALIZED", call |-> 0]]
          /\ UNCHANGED hostVars
     ELSE \E c \in DOMAIN calls :
            /\ signWithDerivation(c, "0xab", wm.currentAddress, "undef", NoKey,
                                  requireConfirmation)
            /\ wmOps' = [wmOps EXCEPT !.sign[s] = [pc |-> "req", out |-> "-", call |-> c]]
  /\ UNCHANGED <<wm, storage>>

\* the promise awaited by sign call s has settled: sign returns the signature
\* and address of the result, or throws the error of the host
signSettled(s) ==
  /\ wmOps.sign[s].pc = "req"
  /\ SignResumes(s)
  /\ LET o == calls[wmOps.sign[s].call].out
     IN wmOps' = [wmOps EXCEPT !.sign[s] =
                    [pc |-> "done",
                     out |-> IF o.st = "resolved" THEN "signed" ELSE errorCode(o.v),
                     call |-> 0]]
  /\ UNCHANGED <<wm, storage, hostVars>>

\* addresses the application passes to removeAddress
AddressArgs == {"0xaa", "0xab", "0xbb", "tb1"}

\* a removeAddress that compares the active address as it is written
sameAddress_exact(a, b) == a = b

\* a.toLowerCase() === b.toLowerCase()
sameAddress(a, b) == toLowerCase(a) = toLowerCase(b)

\* what removeAddress(addressToRemove) returns, or the error it throws
removeAddressReturn(w, addressToRemove) ==
  LET index == FindIndex([i \in 1..Len(w.addresses) |->
                           toLowerCase(w.addresses[i].address) = toLowerCase(addressToRemove)])
  IN IF w.state # "ready" THEN "NOT_INITIALIZED"
     ELSE IF Len(w.addresses) <= 1 THEN "false"
     ELSE IF w.currentAddress # "null" /\ sameAddress(w.currentAddress, addressToRemove)
     THEN "false"
     ELSE IF index = 0 THEN "false"
     ELSE "true"

\* HostWalletManager.removeAddress(addressToRemove)
removeAddress(addressToRemove) ==
  LET index == FindIndex([i \in 1..Len(wm.addresses) |->
                           toLowerCase(wm.addresses[i].address) = toLowerCase(addressToRemove)])
  IN /\ IF removeAddressReturn(wm, addressToRemove) # "true"
        THEN UNCHANGED <<wm, storage>>
        ELSE /\ wm' = [wm EXCEPT !.addresses = Splice(wm.addresses, index)]
             /\ storage' = saveCachedAddresses(storage, Splice(wm.addresses, index))
     /\ wmOps' = [wmOps EXCEPT !.ret = [arg |-> addressToRemove,
                                        v |-> removeAddressReturn(wm, addressToRemove)]]
     /\ UNCHANGED hostVars

KeyIndexArgs == {0, 1}

\* HostWalletManager.switchToAddress(keyIndex); it throws NOT_INITIALIZED when the
\* manager is not ready and UNKNOWN_ADDRESS when no entry has the keyIndex
switchToAddress(keyIndex) ==
  LET index == FindIndex([i \in 1..Len(wm.addresses) |-> wm.addresses[i].keyIndex = keyIndex])
  IN /\ IF wm.state # "ready" THEN wm' = wm
        ELSE IF index = 0 THEN wm' = wm
        ELSE wm' = [wm EXCEPT !.currentAddress = wm.addresses[index].address,
                              !.currentKeyIndex = keyIndex]
     /\ UNCHANGED <<storage, wmOps, hostVars>>

\* the load event of the surface, the peer's messages and the request timers
WMEnvironment(results, errors) ==
  \/ iframeOnLoad
  \/ peerReady
  \/ \E c \in WMCalls, d \in results : peerResult(c, d)
  \/ \E c \in WMCalls, e \in errors : peerError(c, e)
  \/ \E id \in WMIds : requestTimeout(id)

\* the continuations of a run of initialize()
RunResume ==
  \/ \E r \in Runs, out \in ConnectOutcomes : connectSettled(r, out)
  \/ \E r \in Runs, out \in DeriveOutcomes : primarySettled(r, out)
  \/ \E r \in Runs : initializeCatch(r)

\* the continuations of the application's deriveAddress and sign calls
CallResume ==
  \/ \E d \in Derives, out \in DeriveOutcomes : deriveSettled(d, out)
  \/ \E s \in Signs : signSettled(s)

\* the continuations of the manager
WMResume ==
  \/ RunResume
  \/ \E r \in Runs, out \in DeriveOutcomes : restoreSettled(r, out)
  \/ CallResume

\* ------------------------------------------------------------------------
\* The manager over a peer that answers a request with any record or error, on a
\* page without a cache entry: initialize() finds nothing to restore
\* ------------------------------------------------------------------------
NextWM ==
  \/ \E r \in Runs : initialize(r)
  \/ \E r \in Runs : peerNeedsOnboarding(r)
  \/ WMEnvironment(DeriveData, PeerErrors)
  \/ RunResume
  \/ CallResume
  \/ \E d \in Derives, k \in KeyIndexArgs : wmDeriveAddress(d, k)
  \/ \E s \in Signs, conf \in BOOLEAN : wmSign(s, conf)
  \/ removeAddress("0xbb")

\* a manager constructed over a new host, with one of the cache contents
InitWMOf(storages, owners) ==
  /\ HostInitOf(sHttpsVault, FALSE, WMCalls, WMIds)
  /\ \E st \in storages, owned \in owners : WMInitOf(st, owned)

\* no cache, or the cache of a session that derived a second address
FewStorages == {NoStorage, Stored(<<recPrimary, recSecond>>)}

InitAnyPeer == InitWMOf({NoStorage}, {TRUE})

SpecWM == InitAnyPeer /\ [][NextWM]_vars

\* ------------------------------------------------------------------------
\* HostWalletManager with reinitialize() called at any time, over a peer that
\* answers a derive request with an address of the requested key, or not at all
\* ------------------------------------------------------------------------
primaryKey == <<0, "evm", "undef">>
\* deriveAddress(keyIndex) without options asks for the evm group
userKey(keyIndex) == <<keyIndex, "evm", "undef">>

\* the key the DERIVE_ADDRESS request of host call c asks for
RequestKey(c) ==
  IF \E r \in Runs : wmOps.runs[r].call = c /\ wmOps.runs[r].init = "primary"
  THEN primaryKey
  ELSE IF \E r \in Runs : wmOps.runs[r].call = c /\ wmOps.runs[r].restore = "derive"
  THEN KeyOf(Head(wmOps.runs[CHOOSE r \in Runs : wmOps.runs[r].call = c].todo))
  ELSE IF \E d \in Derives : wmOps.derive[d].call = c
  THEN userKey(wmOps.derive[CHOOSE d \in Derives : wmOps.derive[d].call = c].keyIndex)
  ELSE <<>>

\* the data the peer answers the request of call c with
AnswersFor(c) ==
  IF calls[c].op \in {"connect", "signDerivation"} THEN {"d1"}
  ELSE {p.address : p \in {q \in PeerRecords : KeyOf(q) = RequestKey(c)}}
       \cup (IF \E d \in Derives : wmOps.derive[d].call = c THEN {"failed"} ELSE {})

\* the load event, READY, the peer's answers and the request timers
HonestEnvironment ==
  \/ iframeOnLoad
  \/ peerReady
  \/ \E c \in WMCalls : \E d \in AnswersFor(c) : peerResult(c, d)
  \/ \E id \in WMIds : requestTimeout(id)

NextReinit ==
  \/ \E r \in Runs : initialize(r)
  \/ \E r \in Runs : reinitialize(r)
  \/ \E c \in WMCalls : connectResume(c)
  \/ HonestEnvironment
  \/ WMResume
  \/ \E d \in Derives : wmDeriveAddress(d, 1)
  \/ \E s \in Signs : wmSign(s, FALSE)

\* a manager that owns its host, on a page that holds the cache of a session
\* with a second address
InitReinit == InitWMOf({Stored(<<recPrimary, recSecond>>)}, {TRUE})

SpecReinit == InitReinit /\ [][NextReinit]_vars

\* ------------------------------------------------------------------------
\* The same manager when the application calls reinitialize() only while nothing
\* is in flight
\* ------------------------------------------------------------------------
\* no run of initialize(), no restore loop and no deriveAddress or sign call
\* awaits the host
Quiet ==
  /\ \A r \in Runs : /\ wmOps.runs[r].init \in {"new", "returned", "threw"}
                      /\ wmOps.runs[r].restore \notin {"derive", "failed"}
  /\ \A d \in Derives : wmOps.derive[d].pc # "req"
  /\ \A s \in Signs : wmOps.sign[s].pc # "req"

\* restoreCatch is the job of a restore promise that was rejected, which takes a
\* cached list with a null entry
NextQuiet ==
  \/ \E r \in Runs : initialize(r)
  \/ \E r \in Runs : Quiet /\ reinitialize(r)
  \/ \E r \in Runs : restoreCatch(r)
  \/ \E c \in WMCalls : connectResume(c)
  \/ HonestEnvironment
  \/ WMResume
  \/ \E d \in Derives, k \in KeyIndexArgs : wmDeriveAddress(d, k)
  \/ \E s \in Signs, conf \in BOOLEAN : wmSign(s, conf)

\* the page may hold any cache content when the manager is constructed
InitWM == InitWMOf(Storages, {TRUE})

SpecQuiet == InitWM /\ [][NextQuiet]_vars

\* ------------------------------------------------------------------------
\* The address list of a manager whose application derives, signs, switches the
\* active address and removes addresses
\* ------------------------------------------------------------------------
NextAddresses ==
  \/ \E r \in Runs : initialize(r)
  \/ HonestEnvironment
  \/ WMResume
  \/ \E d \in Derives, k \in KeyIndexArgs : wmDeriveAddress(d, k)
  \/ \E s \in Signs, conf \in BOOLEAN : wmSign(s, conf)
  \/ \E a \in AddressArgs : removeAddress(a)
  \/ \E k \in KeyIndexArgs : switchToAddress(k)

\* a manager that owns its host, on a page without a cache or with that cache
InitAddresses == InitWMOf(FewStorages, {TRUE})

SpecAddresses == InitAddresses /\ [][NextAddresses]_vars

\* ------------------------------------------------------------------------
\* The manager's life to its end: initialize, reinitialize, the calls that await
\* the host, and destroy()
\* ------------------------------------------------------------------------
\* HostWalletManager.destroy().  ownedHost: the manager created the host and
\* destroys it (host.destroy() rejects what the manager awaits); a host passed in
\* by the application is left alone, and what the manager awaits stays pending.
wmDestroy(ownedHost) ==
  /\ ownedHost = wmOps.owned
  /\ IF wm.state = "destroyed" THEN UNCHANGED vars
     ELSE /\ wm' = setState([wm EXCEPT !.currentAddress = "null", !.addresses = <<>>],
                            "destroyed")
          /\ IF ownedHost THEN destroy ELSE UNCHANGED hostVars
          /\ UNCHANGED <<storage, wmOps>>

NextLife ==
  \/ \E r \in Runs : initialize(r)
  \/ \E r \in Runs : Quiet /\ reinitialize(r)
  \/ \E c \in WMCalls : connectResume(c)
  \/ HonestEnvironment
  \/ WMResume
  \/ \E d \in Derives, k \in KeyIndexArgs : wmDeriveAddress(d, k)
  \/ \E s \in Signs, conf \in BOOLEAN : wmSign(s, conf)
  \/ \E ownedHost \in BOOLEAN : wmDestroy(ownedHost)

\* the host is the manager's own or one the application passed in
InitLife == InitWMOf(FewStorages, BOOLEAN)

SpecLife == InitLife /\ [][NextLife]_vars

\* ------------------------------------------------------------------------
\* The session host with its timers: an armed setTimeout fires unless it is
\* cleared first.  Nothing is assumed of the peer or of the dApp.
\* ------------------------------------------------------------------------
TimerFairness ==
  /\ \A c \in Calls : WF_vars(loadTimeout(c))
  /\ \A c \in Calls : WF_vars(readyTimeout(c))
  /\ \A id \in Ids : WF_vars(requestTimeout(id))

\* connect calls, the surface, the peer, the timers and destroy()
NextConnect ==
  \/ \E c \in Calls : connectWithSignerType(c) /\ UNCHANGED wmVars
  \/ \E c \in Calls : connectResume(c)
  \/ iframeOnLoad
  \/ iframeOnError
  \/ \E c \in Calls : loadTimeout(c)
  \/ \E c \in Calls : readyTimeout(c)
  \/ inbound
  \/ \E id \in Ids : requestTimeout(id)
  \/ destroy /\ UNCHANGED wmVars
  \/ onEvent("destroyed")

\* a queued continuation runs: the job queue is emptied when the task ends
JobFairness == \A c \in Calls : WF_vars(connectResume(c))

SpecTimers == Init /\ [][NextConnect]_vars /\ TimerFairness /\ JobFairness

\* ------------------------------------------------------------------------
\* The session host over a peer that also sends well-formed messages whose
\* payload is null or has no requestId
\* ------------------------------------------------------------------------
PayloadKinds == {"null", "norid"}
PayloadEvents ==
  HostEvents \cup {Event(sHttpsVault, IframeWin, MsgPl(t, pl)) : t \in InTypes, pl \in PayloadKinds}

inboundAnyPayload ==
  /\ \E ev \in PayloadEvents : handleMessage(ev)
  /\ UNCHANGED <<gate, wmVars>>

NextPayload ==
  \/ \E c \in Calls : connectWithSignerType(c) /\ UNCHANGED wmVars
  \/ \E c \in Calls : connectResume(c)
  \/ \E c \in Calls : deriveAddress(c) /\ UNCHANGED wmVars
  \/ iframeOnLoad
  \/ inboundAnyPayload
  \/ \E id \in Ids : requestTimeout(id)
  \/ destroy /\ UNCHANGED wmVars

SpecPayload == Init /\ [][NextPayload]_vars

\* ------------------------------------------------------------------------
\* The session host with a destroyed-event handler that calls destroy()
\* ------------------------------------------------------------------------
\* destroy() whose destroyed-event handler calls destroy() the first time it runs
\* and returns the second time.  this.destroyed is still false inside the handler
\* (super.destroy() comes after it), so the nested call runs the body again: no
\* notice (the state is "destroyed"), nothing left to unmount, the event a second
\* time, then super.destroy(); the outer super.destroy() finds the flag set.
destroyReentrant ==
  /\ ~destroyed
  /\ "destroyed" \in eventHandlers
  /\ events.destroyed + 1 < MaxEvents
  /\ \E notice \in NoticeOutcomes :
       LET r2 == cancelAll(rm)
           posted2 == IF notice = "posted"
                      THEN posted \cup {PostRec("DESTROY", nextId + 1, NoPayload, seen)}
                      ELSE posted
       IN /\ nextId' = IF notice = "skipped" THEN nextId ELSE nextId + 1
          /\ posted' = posted2
          /\ iframe' = FALSE
          /\ contentWindow' = FALSE
          /\ overlayShown' = FALSE
          /\ state' = "destroyed"
          /\ events' = [events EXCEPT !.destroyed = @ + 2,
                                      !.atDestroyed = AtDestroyedEvent(
                                         {m \in posted2 : m.type = "DESTROY"})]
          /\ destroyed' = TRUE
          /\ listening' = FALSE
          /\ rm' = r2
          /\ firstEv' = Note(firstEv, rm, rm.pending, [ev |-> "cancel", v |-> "DESTROYED"])
          /\ handlers' = [t \in InTypes |-> "none"]
          /\ calls' = Resume(calls, r2)
  /\ UNCHANGED <<wmVars, rmRet, allowedOrigin, allowedSource, production, gate,
                 readyResolver, hs, seen, eventHandlers>>

NextReenter ==
  \/ NextConnect
  \/ destroyReentrant

SpecReenter == Init /\ [][NextReenter]_vars

\* ------------------------------------------------------------------------
\* Properties
\* ------------------------------------------------------------------------
RequestPosts == {m \in posted : m.type \in RequestTypes}

\* C1: no protocol request (CONNECT, SIGN_WITH_PASSKEY, SIGN_WITH_DERIVATION,
\* DERIVE_ADDRESS) is posted to the peer before the host has observed the load
\* signal of the mounted surface and a READY message from the peer.
C1_NoRequestBeforeHandshake == \A m \in RequestPosts : m.load /\ m.ready

\* the outcome the caller must observe for the first event of a request
OutcomeOf(e) ==
  IF e.ev = "response" THEN Resolved(e.v)
  ELSE IF e.ev = "error" THEN Rejected(e.v)
  ELSE IF e.ev = "timeout" THEN Rejected("TIMEOUT")
  ELSE Rejected("DESTROYED")

\* C2: the promise of every registered request settles exactly once, with the
\* outcome of whichever happens first: a matching response, a peer ERROR, its own
\* timeout or cancelAll; a response arriving after the timeout changes nothing.
C2_SettlesOnceFirstWins ==
  \A i \in Ids :
    /\ rm.settles[i] <= 1
    /\ firstEv[i].ev = "none" => rm.promise[i].st \in {"unreg", "pending"} /\ rm.settles[i] = 0
    /\ firstEv[i].ev # "none" => rm.promise[i] = OutcomeOf(firstEv[i]) /\ rm.settles[i] = 1

\* a response arrived for a request whose timeout had fired, and the caller holds TIMEOUT
C2_Witness ==
  /\ rmRet.op = "resolve"
  /\ ~rmRet.ret
  /\ firstEv[rmRet.id].ev = "timeout"
  /\ rm.promise[rmRet.id] = Rejected("TIMEOUT")

Consumed(i) == rm.promise[i].st \in {"resolved", "rejected"}

\* C3: once the pending entry of id X has been consumed, every later resolve(X, v)
\* or reject(X, e) returns false, settles no promise again and leaves the pending
\* table unchanged.
C3_AtMostOnceResolution ==
  [][\A i \in Ids :
       Consumed(i) =>
         /\ \A d \in Data : rmResolve(i, d) => (rm' = rm /\ ~rmRet'.ret)
         /\ \A code \in PeerCodes : rmReject(i, code) => (rm' = rm /\ ~rmRet'.ret)]_vars

\* reject(X) was called after X had been resolved, and returned false
C3_Witness ==
  /\ rmRet.op = "reject"
  /\ ~rmRet.ret
  /\ firstEv[rmRet.id].ev = "response"
  /\ rm.promise[rmRet.id].st = "resolved"

Cancelled == {i \in Ids : firstEv[i].ev = "cancel"}

\* C4: destroying the channel rejects all N pending requests with DESTROYED in one
\* step, cancels their timers and leaves the pending count at 0; none of them
\* receives a TIMEOUT or a result afterwards.
C4_CancelAllOnDestroy ==
  [][/\ (~destroyed /\ destroyed') =>
          /\ \A i \in rm.pending : rm'.promise[i] = Rejected("DESTROYED")
          /\ pendingCount(rm') = 0
          /\ rm'.timers \cap rm.pending = {}
     /\ \A i \in Cancelled :
          /\ rm'.promise[i] = Rejected("DESTROYED")
          /\ rm'.settles[i] = 1
          /\ i \notin rm'.timers
          /\ i \notin rm'.pending]_vars

\* three requests were pending when the channel was destroyed
C4_Witness ==
  /\ destroyed
  /\ Cardinality(Cancelled) >= 3
  /\ pendingCount(rm) = 0

\* C5: after the session host is destroyed, every operation invoked afterwards
\* fails with a DESTROYED-kind error.
C5_DestroyedOpsFailDestroyed ==
  [][\A c \in Calls :
       (destroyed /\ calls[c].op = "none" /\ calls'[c].op # "none")
         => calls'[c].out = Rejected("DESTROYED")]_vars

\* the four conditions of the inbound gate, for the last inbound event
GateConditions ==
  /\ gate.origin # windowLocationOrigin
  /\ allowedSource # NoWindow => gate.source = allowedSource
  /\ isValidOrigin(gate.origin, allowedOrigin, production)
  /\ isValidMessage([shape |-> gate.shape])

\* C6: an inbound event reaches a handler or the correlation manager only if its
\* origin is not the host's own, its source is the pinned window, isValidOrigin and
\* isValidMessage accept it; an event failing a check reaches nothing and changes
\* neither the pending table nor the session.
C6_InboundGate ==
  gate.seen =>
    /\ gate.reached # "none" => GateConditions
    /\ ~GateConditions => (gate.reached = "none" /\ ~gate.changed)

\* an ERROR for a pending request, from the allowed origin but from another
\* window than the pinned one, was dropped
C6_Witness ==
  /\ gate.seen
  /\ gate.source = OtherWin
  /\ gate.origin = allowedOrigin
  /\ gate.shape = "msg"
  /\ gate.reached = "none"
  /\ 1 \in rm.pending

\* C7: in a production build isValidOrigin(origin, "*") is false for every origin
\* and a channel with allowedOrigin "*" accepts no inbound message; in a
\* non-production build the wildcard accepts every origin.  Stated of both copies
\* of isValidOrigin in the repository.
C7_ProductionWildcard ==
  (gate.seen /\ allowedOrigin = sStar) =>
    IF production
    THEN ~gate.originOk /\ ~gate.originOkKo /\ gate.reached = "none"
    ELSE gate.originOk /\ gate.originOkKo

\* the parts of an origin string scheme://host[:port]
SchemeLen(o) ==
  LET at == {i \in 1..Len(o) : i + 2 <= Len(o) /\ SubSeq(o, i, i + 2) = <<":", "/", "/">>}
  IN IF at = {} THEN 0 ELSE CHOOSE i \in at : \A j \in at : i <= j
SchemeOf(o) == IF SchemeLen(o) = 0 THEN <<>> ELSE SubSeq(o, 1, SchemeLen(o) - 1)
Authority(o) == IF SchemeLen(o) = 0 THEN <<>> ELSE SubSeq(o, SchemeLen(o) + 3, Len(o))
ColonAt(a) ==
  LET at == {i \in 1..Len(a) : a[i] = ":"}
  IN IF at = {} THEN 0 ELSE CHOOSE i \in at : \A j \in at : i <= j
HostOf(o) == IF ColonAt(Authority(o)) = 0 THEN Authority(o)
             ELSE SubSeq(Authority(o), 1, ColonAt(Authority(o)) - 1)
HasPort(o) == ColonAt(Authority(o)) # 0
LoopbackHosts == {sLocalhost, <<"1","2","7",".","0",".","0",".","1">>}

\* C8 as stated: isValidOrigin(origin, "localhost") is true exactly for the origins
\* whose host is localhost or 127.0.0.1, at any port.
C8_LocalhostAnyLoopback ==
  (gate.seen /\ allowedOrigin = sLocalhost) =>
    (gate.originOk <=> HostOf(gate.origin) \in LoopbackHosts)

\* C8 amended: isValidOrigin(origin, "localhost") is true exactly for the origins
\* with scheme http, host localhost or 127.0.0.1 and an explicit port.
C8_LocalhostHttpWithPort ==
  (gate.seen /\ allowedOrigin = sLocalhost) =>
    (gate.originOk <=> /\ SchemeOf(gate.origin) = <<"h","t","t","p">>
                       /\ HostOf(gate.origin) \in LoopbackHosts
                       /\ HasPort(gate.origin))

\* an https origin on localhost was refused under the localhost policy
C8_Witness ==
  /\ gate.seen
  /\ allowedOrigin = sLocalhost
  /\ gate.origin = sHttpsLocalhost4000
  /\ ~gate.originOk
  /\ gate.reached = "none"

Forward(a, b) ==
  \/ b = a
  \/ b = "destroyed"
  \/ a = "idle" /\ b = "loading"
  \/ a = "loading" /\ b = "ready"

\* C9: the session state only moves idle -> loading -> ready and from any state
\* to destroyed, never backwards; once ready it stays ready until destroy(); the
\* surface is mounted exactly when the state is loading or ready.
C9_StateMachine ==
  /\ [](iframe <=> state \in {"loading", "ready"})
  /\ [][Forward(state, state')]_vars

ConnectFailures == {"TIMEOUT"} \cup PeerCodes

\* C10: when a connect attempt fails (handshake timeout, request timeout or peer
\* ERROR) the session enters the error state and the failure is delivered to the
\* registered error event handler.
C10_ConnectFailureEntersError ==
  [][\A c \in Calls :
       (/\ "error" \in eventHandlers
        /\ calls[c].op = "connect"
        /\ calls[c].pc # "done"
        /\ calls'[c].pc = "done"
        /\ calls'[c].out.st = "rejected"
        /\ calls'[c].out.v \in ConnectFailures)
         => /\ state' = "error"
            /\ events'.error = events.error + 1]_vars

\* what "supplied" means for the options of signWithDerivation
AddressSupplied(a) == a # "undef"
PairSupplied(g, k) == g # "undef" /\ k.def
ExactlyOne(a, g, k) == AddressSupplied(a) # PairSupplied(g, k)
KeyInRange(k) == ~k.def \/ (~LtNum(k.n, Zero) /\ ~LtNum(MaxKeyIndex, k.n))
AddressWellFormed(a) == a # "0xBad"

\* C11: in the ready state and with a well-formed hash, signWithDerivation fails
\* with VALIDATION_FAILED unless exactly one of {address} and {group and keyIndex
\* together} is supplied; it fails for {} and for {address, group, keyIndex}, and
\* with exactly one (well-formed) it passes validation: the request is sent, or,
\* where the host holds no content window to post to, the call fails at the post
\* with NOT_INITIALIZED.
C11_ExclusiveOr ==
  [][\A c \in Calls :
       (state = "ready" /\ calls[c].op = "none" /\ calls'[c].op = "signDerivation") =>
         \A h \in HexInputs, a \in AddressInputs, g \in GroupInputs,
            k \in KeyIndexInputs, conf \in BOOLEAN :
           (isHex(h) /\ signWithDerivation(c, h, a, g, k, conf)) =>
             /\ ~ExactlyOne(a, g, k) =>
                  /\ calls'[c].pc = "done"
                  /\ calls'[c].out = Rejected("VALIDATION_FAILED")
             /\ (ExactlyOne(a, g, k) /\ AddressWellFormed(a) /\ KeyInRange(k)) =>
                  IF contentWindow
                  THEN /\ calls'[c].pc = "req"
                       /\ \E m \in posted' \ posted : m.type = "SIGN_WITH_DERIVATION"
                  ELSE /\ calls'[c].out = Rejected("NOT_INITIALIZED")
                       /\ posted' = posted]_vars

\* a request identified by group and keyIndex alone was sent and is pending
C11_Witness ==
  \E c \in Calls, m \in posted :
    /\ calls[c].op = "signDerivation"
    /\ calls[c].pc = "req"
    /\ m.id = calls[c].id
    /\ m.pl.address = "undef"
    /\ m.pl.group = "evm"
    /\ m.pl.keyIndex.def

\* C12: the payload of every SIGN_WITH_DERIVATION message posted to the peer never
\* carries an address together with a group or with a keyIndex, and never carries
\* a keyIndex without a group.
C12_PayloadExclusive ==
  \A m \in posted :
    m.type = "SIGN_WITH_DERIVATION" =>
      /\ ~(m.pl.address # "undef" /\ (m.pl.group # "undef" \/ m.pl.keyIndex.def))
      /\ m.pl.keyIndex.def => m.pl.group # "undef"

\* the call failed at once, and nothing else happened in the step
NoEffect(c) ==
  /\ calls'[c].pc = "done"
  /\ calls'[c].out.st = "rejected"
  /\ posted' = posted
  /\ rm' = rm
  /\ overlayShown' = overlayShown
  /\ state' = state

\* a call that fails a pre-check fails at once, with NOT_INITIALIZED when the
\* session is not ready and with VALIDATION_FAILED for its arguments otherwise
PreCheckFailure(c) ==
  /\ calls[c].op = "none"
  /\ calls'[c].op \in {"signPasskey", "signDerivation", "derive"}
  /\ calls'[c].pc = "done"
  /\ state # "ready" \/ calls'[c].out = Rejected("VALIDATION_FAILED")

\* C13: when signWithPasskey, signWithDerivation or deriveAddress fails a pre-check
\* (session not ready, malformed hash / keyId / address, exclusive-or violation,
\* keyIndex outside [0, 2147483647]), no message is posted, no pending request is
\* registered, and modal visibility and session state are unchanged; malformed
\* arguments of a sign call on a ready session are such a failure.
C13_PreCheckNoEffect ==
  [][\A c \in Calls :
       /\ PreCheckFailure(c) => NoEffect(c)
       /\ (state = "ready" /\ calls[c].op = "none" /\ calls'[c].op = "signPasskey") =>
            \A h \in HexInputs, k \in HexInputs :
              ((~isHex(h) \/ ~isHex(k)) /\ signWithPasskey(c, h, k)) => PreCheckFailure(c)
       /\ (state = "ready" /\ calls[c].op = "none" /\ calls'[c].op = "signDerivation"
             /\ calls'[c].pc = "req") =>
            \A h \in HexInputs, a \in AddressInputs, g \in GroupInputs,
               k \in KeyIndexInputs, conf \in BOOLEAN :
              signWithDerivation(c, h, a, g, k, conf) =>
                /\ isHex(h)
                /\ ExactlyOne(a, g, k)
                /\ AddressWellFormed(a)
                /\ KeyInRange(k)]_vars

\* a sign request failed validation on a ready session whose surface stayed hidden
\* and which has posted nothing but its CONNECT
C13_Witness ==
  /\ state = "ready"
  /\ ~overlayShown
  /\ \A m \in posted : m.type = "CONNECT"
  /\ rm.pending = {}
  /\ \E c \in Calls : /\ calls[c].op \in {"signPasskey", "signDerivation"}
                      /\ calls[c].out = Rejected("VALIDATION_FAILED")

\* C14: on every exit of signWithPasskey after it has shown the modal surface
\* (result, peer ERROR, request timeout, failure to post the message) the surface
\* is hidden when the call settles.
C14_PasskeyHidesOnEveryExit ==
  [][\A c \in Calls :
       (/\ calls'[c].op = "signPasskey"
        /\ calls'[c].pc = "done"
        /\ \/ calls[c].pc = "req"
           \/ /\ calls[c].op = "none"
              /\ state = "ready"
              /\ calls'[c].out # Rejected("VALIDATION_FAILED"))
         => ~overlayShown']_vars

\* C15: whenever an operation during which the surface was shown fails, the
\* surface is hidden when the failure is delivered; stated of the first operation
\* of a host (the surface is hidden before it), which covers a connect that fails
\* by request timeout or peer ERROR after NEEDS_ONBOARDING displayed the surface.
C15_FailureRevertsVisibility ==
  [][\A c \in Calls :
       (/\ \A d \in Calls \ {c} : calls[d].op = "none"
        /\ calls[c].pc = "req"
        /\ overlayShown
        /\ calls'[c].pc = "done"
        /\ calls'[c].out.st = "rejected")
         => ~overlayShown']_vars

\* a message event from the mounted surface: it passes the gate of a listening host
FromSurface(d) == Event(sHttpsVault, IframeWin, d)

\* C16: a NEEDS_ONBOARDING message shows the modal surface and settles nothing:
\* calls, pending table and session state are as before; a later CONNECT_RESULT
\* carrying the id of the pending connect resolves it and makes the session ready.
C16_OnboardingKeepsConnectPending ==
  [][/\ handleMessage(FromSurface(Msg("NEEDS_ONBOARDING", 0, "-"))) =>
          /\ overlayShown'
          /\ calls' = calls
          /\ rm' = rm
          /\ state' = state
     /\ \A c \in Calls, d \in Data :
          (/\ calls[c].op = "connect"
           /\ calls[c].pc = "req"
           /\ handleMessage(FromSurface(Msg("CONNECT_RESULT", calls[c].id, d))))
            => /\ calls'[c].pc = "done"
               /\ calls'[c].out = Resolved(d)
               /\ state' = "ready"]_vars

\* the surface is displayed for onboarding while the connect call is still pending
C16_Witness ==
  /\ overlayShown
  /\ state = "loading"
  /\ \E c \in Calls : /\ calls[c].op = "connect"
                      /\ calls[c].pc = "req"
                      /\ calls[c].id \in rm.pending

DestroyNotices == {m \in posted : m.type = "DESTROY"}

\* C17: once destroy() has been called the channel is destroyed (isDestroyed is
\* true) and stays so; further destroy() calls have no effect: at most one DESTROY
\* notice is ever posted.
C17_IdempotentDestroy ==
  [][/\ (state # "destroyed" /\ state' = "destroyed") => destroyed'
     /\ destroyed => destroyed'
     /\ destroyed => (destroy => UNCHANGED vars)
     /\ Cardinality(DestroyNotices') <= 1]_vars

\* C18: after destroy() the handler table stays empty, no inbound-message
\* subscription is active and no pending request exists, whatever on / off,
\* connect, sign or derive calls follow.
C18_DestroyedChannelInert ==
  destroyed =>
    /\ \A t \in InTypes : handlers[t] = "none"
    /\ ~listening
    /\ rm.pending = {}

\* the outcome a response or an ERROR message carries for its request
Carried(d) == IF d.type = "ERROR" THEN Rejected(d.val) ELSE Resolved(d.val)

\* the result and ERROR messages that carry request id rid
Answers(rid) == {Msg(t, rid, d) : t \in ResultTypes, d \in Data}
                \cup {Msg("ERROR", rid, code) : code \in PeerCodes}

\* every other request that was pending is as before: call, entry and timer
OthersUntouched(id) ==
  \A c \in Calls :
    (calls[c].pc = "req" /\ calls[c].id # id) =>
      /\ calls'[c] = calls[c]
      /\ calls[c].id \in rm'.pending
      /\ calls[c].id \in rm'.timers

\* C19: responses are matched by id: a result or ERROR message settles the pending
\* call whose request id it carries, with the data it carries, in any delivery
\* order; it and a request timeout leave every other pending request and its timer
\* untouched.
C19_MatchedById ==
  [][\A c \in Calls :
       calls[c].pc = "req" =>
         /\ \A m \in Answers(calls[c].id) :
              handleMessage(FromSurface(m)) =>
                /\ calls'[c].pc = "done"
                /\ calls'[c].out = Carried(m)
                /\ OthersUntouched(calls[c].id)
         /\ requestTimeout(calls[c].id) =>
              /\ calls'[c].pc = "done"
              /\ calls'[c].out = Rejected("TIMEOUT")
              /\ OthersUntouched(calls[c].id)]_vars

\* the request issued second was answered while the one issued first is pending
C19_Witness ==
  \E c \in Calls, d \in Calls :
    /\ calls[c].pc = "req"
    /\ calls[c].id \in rm.pending
    /\ calls[c].id \in rm.timers
    /\ calls[d].pc = "done"
    /\ calls[d].out.st = "resolved"
    /\ calls[c].id < calls[d].id

\* C20: the manager's address list never contains two entries with the same
\* (keyIndex, group, bitcoinNetwork) key, after any sequence and interleaving of
\* initialize, background restore, deriveAddress and removeAddress.
C20_CacheUniqueness ==
  \A i \in 1..Len(wm.addresses), j \in 1..Len(wm.addresses) :
    i # j => KeyOf(wm.addresses[i]) # KeyOf(wm.addresses[j])

\* C27: an exception of a registered handler stays inside handleMessage: the
\* delivery that made a handler raise leaves the pending table, the calls, the
\* subscription and the handler table as they were, no exception reaches the
\* caller of handleMessage, and afterwards a result or ERROR message still
\* settles the pending call it names.
C27_HandlerExceptionsContained ==
  [][/\ ~events'.uncaught
     /\ \A t \in UserTypes \ {"ERROR"} :
          (handlers[t] = "throws" /\ handleMessage(FromSurface(Msg(t, 0, "-")))) =>
            /\ events'.raised
            /\ rm' = rm
            /\ calls' = calls
            /\ listening' = listening
            /\ handlers' = handlers
     /\ events.raised =>
          \A c \in Calls :
            calls[c].pc = "req" =>
              \A m \in Answers(calls[c].id) :
                handleMessage(FromSurface(m)) =>
                  /\ calls'[c].pc = "done"
                  /\ calls'[c].out = Carried(m)]_vars

\* a handler of the dApp raised and a request answered after it was resolved
C27_Witness ==
  /\ events.raised
  /\ listening
  /\ \E c \in Calls : calls[c].pc = "req" /\ calls[c].id \in rm.pending
  /\ \E d \in Calls : calls[d].pc = "done" /\ calls[d].out.st = "resolved"

\* C28: an ERROR message that passes the gate and carries the id of a pending
\* request rejects that request with the error of its payload, leaves every other
\* pending request as it was, and no handler of the table is called for it, not
\* even one registered for ERROR.
C28_ErrorRouting ==
  [][/\ "ERROR" \notin events'.handled
     /\ \A c \in Calls :
          calls[c].pc = "req" =>
            \A code \in PeerCodes :
              handleMessage(FromSurface(Msg("ERROR", calls[c].id, code))) =>
                /\ calls'[c].pc = "done"
                /\ calls'[c].out = Rejected(code)
                /\ OthersUntouched(calls[c].id)
                /\ events' = events]_vars

\* a request was rejected by an ERROR message while a handler is registered for
\* the ERROR type and another request is pending
C28_Witness ==
  /\ handlers["ERROR"] \in UserHandlers
  /\ \E c \in Calls : calls[c].pc = "done" /\ calls[c].out = Rejected("USER_CANCELLED")
  /\ \E d \in Calls : calls[d].pc = "req" /\ calls[d].id \in rm.pending

\* C29: destroy() of a host that is not destroyed tries the DESTROY notice first
\* (only a ready host with a content window posts one; a notice that cannot be
\* posted does not stop the teardown), then unmounts the surface and sets the state
\* to destroyed, then fires the destroyed event, and runs the base channel destroy
\* last: the handler of the destroyed event finds the notice posted, the surface
\* unmounted and the state destroyed, and the channel not yet destroyed, with its
\* subscription and its pending requests still in place.
C29_DestroyOrder ==
  [][(~destroyed /\ destroy) =>
       /\ state' = "destroyed"
       /\ ~iframe'
       /\ ~overlayShown'
       /\ DestroyNotices' # DestroyNotices => (state = "ready" /\ contentWindow)
       /\ "destroyed" \in eventHandlers =>
            /\ events'.destroyed = events.destroyed + 1
            /\ events'.atDestroyed =
                 [state |-> "destroyed", mounted |-> FALSE, isDestroyed |-> FALSE,
                  listening |-> listening, pending |-> rm.pending,
                  notices |-> DestroyNotices']
       /\ destroyed' => (~listening' /\ rm'.pending = {}
                         /\ \A t \in InTypes : handlers'[t] = "none")]_vars

\* the handler of the destroyed event ran on a host that was ready with a request
\* pending: the notice was posted, the request was cancelled after the handler
C29_Witness ==
  /\ events.atDestroyed.state = "destroyed"
  /\ events.atDestroyed.pending # {}
  /\ events.atDestroyed.listening
  /\ events.atDestroyed.notices # {}
  /\ destroyed
  /\ rm.pending = {}

\* the address is the active one, compared without regard to case
IsActive(a) == wm.currentAddress # "null" /\ toLowerCase(wm.currentAddress) = toLowerCase(a)

\* C21 as stated: removeAddress(address) returns false and leaves the list and
\* the persisted cache as they were when fewer than 2 addresses remain or when
\* address is the active address, compared case-insensitively; no call empties
\* the list or removes an entry that holds the active address.
C21_RemoveAddressRefuses ==
  [][\A a \in AddressArgs :
       removeAddress(a) =>
         /\ (Len(wm.addresses) < 2 \/ IsActive(a)) =>
              /\ wmOps'.ret = [arg |-> a, v |-> "false"]
              /\ wm'.addresses = wm.addresses
              /\ storage' = storage
         /\ wm.addresses # <<>> => wm'.addresses # <<>>
         /\ \A i \in 1..Len(wm.addresses) :
              IsActive(wm.addresses[i].address) =>
                \E j \in 1..Len(wm'.addresses) : wm'.addresses[j] = wm.addresses[i]]_vars

\* C21, amended: on a ready manager removeAddress(address) returns false and
\* leaves the list and the persisted cache as they were when fewer than 2
\* addresses remain or when address is the active address, compared
\* case-insensitively; on a manager that is not ready it throws NOT_INITIALIZED
\* and changes nothing; no call empties the list or removes an entry that holds
\* the active address.
C21_RemoveAddressGuards ==
  [][\A a \in AddressArgs :
       /\ (wm.state = "ready" /\ removeAddress(a)) =>
            /\ (Len(wm.addresses) < 2 \/ IsActive(a)) =>
                 /\ wmOps'.ret = [arg |-> a, v |-> "false"]
                 /\ wm'.addresses = wm.addresses
                 /\ storage' = storage
            /\ wm.addresses # <<>> => wm'.addresses # <<>>
            /\ \A i \in 1..Len(wm.addresses) :
                 IsActive(wm.addresses[i].address) =>
                   \E j \in 1..Len(wm'.addresses) : wm'.addresses[j] = wm.addresses[i]
       /\ (wm.state # "ready" /\ removeAddress(a)) =>
            /\ wmOps'.ret = [arg |-> a, v |-> "NOT_INITIALIZED"]
            /\ wm' = wm
            /\ storage' = storage]_vars

\* removeAddress was refused for the active address written in another case,
\* with two addresses in the list
C21_Witness ==
  /\ wm.state = "ready"
  /\ Len(wm.addresses) = 2
  /\ wm.currentAddress = "0xAB"
  /\ wmOps.ret = [arg |-> "0xab", v |-> "false"]

\* insert-or-replace keyed by the (keyIndex, group, bitcoinNetwork) of the entry
Upsert(list, info) ==
  IF \E i \in 1..Len(list) : KeyOf(list[i]) = KeyOf(info)
  THEN [i \in 1..Len(list) |-> IF KeyOf(list[i]) = KeyOf(info) THEN info ELSE list[i]]
  ELSE Append(list, info)

\* C22: deriveAddress(keyIndex) on a manager that is not ready fails with
\* NOT_INITIALIZED; when the peer's result signals failure the call fails with
\* SIGN_FAILED and list and cache stay as they were; when the result carries an
\* address the entry of the list with the same (keyIndex, group, bitcoinNetwork)
\* key is replaced by it, or it is appended when the list has no such entry, and
\* the list is written to the cache.
C22_DeriveInsertOrReplace ==
  [][\A c \in Derives :
       /\ (wmOps.derive[c].pc = "new" /\ wm.state # "ready") =>
            \A k \in KeyIndexArgs :
              wmDeriveAddress(c, k) => /\ wmOps'.derive[c].pc = "done"
                                       /\ wmOps'.derive[c].out = "NOT_INITIALIZED"
       /\ wmOps.derive[c].pc = "req" =>
            \A out \in DeriveOutcomes :
              deriveSettled(c, out) =>
                /\ (out.st = "resolved" /\ ~out.success) =>
                     /\ wmOps'.derive[c].out = "SIGN_FAILED"
                     /\ wm'.addresses = wm.addresses
                     /\ storage' = storage
                /\ (out.success /\ hasRecord(out)) =>
                     /\ wm'.addresses = Upsert(wm.addresses, out.address)
                     /\ storage.mode = "ok" => storage' = Stored(wm'.addresses)]_vars

\* the peer reported that no wallet exists while the connect of run r was
\* pending: by a NEEDS_ONBOARDING message, or by the error out the connect is
\* rejected with
ReportedNoWallet(r, out) ==
  \/ wmOps.runs[r].init = "onboarding"
  \/ /\ out.st = "rejected"
     /\ out.code = "NOT_INITIALIZED"
     /\ includes(out.message, sNoWallet)

\* C23: when the peer reported during initialize() that no wallet exists, the
\* manager enters no_wallet, calls onNeedsOnboarding once and onError never,
\* derives no address, and initialize() returns without throwing.
C23_NoWalletStops ==
  [][\A r \in Runs :
       wmOps.runs[r].init \in {"connect", "onboarding"} =>
         \A out \in ConnectOutcomes :
           (connectSettled(r, out) /\ ReportedNoWallet(r, out)) =>
             /\ wm'.state = "no_wallet"
             /\ wmOps'.runs[r].onboarding = 1
             /\ wmOps'.runs[r].errors = 0
             /\ wmOps'.runs[r].init = "returned"]_vars

\* the manager as reinitialize() leaves it when it calls initialize()
ResetManager == [state |-> "connecting", addresses |-> <<>>, currentAddress |-> "null",
                 currentKeyIndex |-> 0]

\* C24: reinitialize() resets state, list, active address and active key index,
\* removes the cache entry and runs initialize() again; when it has completed the
\* list holds the address derived after the reset only, and nothing is added to the
\* list or written to the cache any more by a restore that an earlier run of
\* initialize() started.
C24_ReinitializeStartsClean ==
  [][\A r \in Runs :
       /\ (wmOps.runs[r].init = "new" /\ reinitialize(r)) =>
            /\ wm' = ResetManager
            /\ storage.mode = "ok" => storage' = NoStorage
            /\ wmOps'.runs[r].init = "connect"
       /\ (r > 1 /\ wmOps.runs[r].init = "primary") =>
            \A out \in DeriveOutcomes :
              (hasRecord(out) /\ primarySettled(r, out)) => wm'.addresses = <<out.address>>
       /\ (r > 1 /\ wmOps.runs[r].init = "returned") =>
            \A q \in Runs :
              (q < r /\ wmOps.runs[q].restore = "derive") =>
                \A out \in DeriveOutcomes :
                  restoreSettled(q, out) => /\ wm'.addresses = wm.addresses
                                            /\ storage' = storage]_vars

\* the entry is corrupt: it does not parse, or what it holds under addresses is
\* no list of address records
Corrupt(st) ==
  \/ st.kind = "corrupt"
  \/ st.kind = "json" /\ \E i \in 1..Len(st.addresses) : st.addresses[i] \in {recBlank, recNull}
\* nothing can be read from the cache entry / the entry cannot be changed
Unreadable(st) ==
  st.mode \in {"blocked", "undefined"} \/ st.kind = "absent" \/ Corrupt(st)
Unwritable(st) == st.mode \in {"blocked", "undefined"}

\* C25: storage failures stay inside the cache functions.  Loading an absent,
\* corrupt or unreadable entry gives the empty list and lets initialize() go on;
\* with an entry that cannot be written or removed, initialize, deriveAddress,
\* removeAddress and reinitialize end with the return value and the in-memory state
\* they have with a working storage, and the entry stays as it was.
C25_StorageFailuresContained ==
  [][/\ \A r \in Runs :
          /\ (wmOps.runs[r].init = "connect" /\ connectSettled(r, ConnectResolved)) =>
               /\ wmOps'.runs[r].init = "primary"
               /\ wmOps'.runs[r].errors = 0
               /\ wmOps'.runs[r].cached =
                    (IF Unreadable(storage) THEN <<>> ELSE storage.addresses)
          /\ wmOps.runs[r].init = "primary" =>
               \A out \in DeriveOutcomes :
                 (hasRecord(out) /\ primarySettled(r, out)) =>
                   /\ wm'.state = "ready"
                   /\ wm'.addresses = <<out.address>>
                   /\ wmOps'.runs[r].init = "returned"
                   /\ wmOps'.runs[r].errors = 0
          /\ (wmOps.runs[r].init = "new" /\ reinitialize(r)) =>
               /\ wm' = ResetManager
               /\ wmOps'.runs[r].init = "connect"
     /\ \A c \in Derives :
          wmOps.derive[c].pc = "req" =>
            \A out \in DeriveOutcomes :
              (out.success /\ hasRecord(out) /\ deriveSettled(c, out)) =>
                /\ wmOps'.derive[c].out = out.address.address
                /\ wm'.addresses = insertOrReplace(wm.addresses, wmOps.derive[c].keyIndex,
                                                   out.address)
     /\ \A a \in AddressArgs :
          (wm.state = "ready" /\ Len(wm.addresses) > 1 /\ ~IsActive(a) /\ removeAddress(a)
           /\ \E i \in 1..Len(wm.addresses) : sameAddress(wm.addresses[i].address, a)) =>
            /\ wmOps'.ret.v = "true"
            /\ Len(wm'.addresses) = Len(wm.addresses) - 1
     /\ Unwritable(storage) => storage' = storage
     /\ storage.mode = "full" => storage' \in {storage, WithMode(NoStorage, "full")}
     /\ storage'.mode = storage.mode]_vars

\* C26: after the connect the manager loads the cached list, then derives the
\* primary address and is ready as soon as it has it; for every cache content it
\* then attempts to re-derive each cached entry whose key is not the primary's, one
\* after the other, adds each confirmed entry to the list, skips an entry whose
\* derivation fails without touching the list or the ready state, and writes the
\* list to the cache after the last one.
C26_CacheReconciliation ==
  [][\A r \in Runs :
       /\ (wmOps.runs[r].init = "connect" /\ connectSettled(r, ConnectResolved)) =>
            /\ wmOps'.runs[r].init = "primary"
            /\ wmOps'.runs[r].cached = loadCachedAddresses(storage).list
       /\ wmOps.runs[r].init = "primary" =>
            \A out \in DeriveOutcomes :
              (hasRecord(out) /\ primarySettled(r, out)) =>
                /\ wm'.state = "ready"
                /\ \A i \in 1..Len(wmOps.runs[r].cached) :
                     KeyOf(wmOps.runs[r].cached[i]) # KeyOf(out.address) =>
                       /\ wmOps'.runs[r].restore = "derive"
                       /\ \E j \in 1..Len(wmOps'.runs[r].todo) :
                            wmOps'.runs[r].todo[j] = wmOps.runs[r].cached[i]
       /\ wmOps.runs[r].restore = "derive" =>
            \A out \in DeriveOutcomes :
              restoreSettled(r, out) =>
                /\ wm'.state = wm.state
                /\ wmOps'.runs[r].todo = Tail(wmOps.runs[r].todo)
                /\ hasRecord(out) =>
                     \E j \in 1..Len(wm'.addresses) :
                       KeyOf(wm'.addresses[j]) = KeyOf(out.address)
                /\ ~hasRecord(out) => wm'.addresses = wm.addresses
                /\ (Len(wmOps.runs[r].todo) = 1 /\ storage.mode = "ok") =>
                     storage' = Stored(wm'.addresses)]_vars

\* C30: background restore issues its re-derivation requests one at a time, so
\* at most one restore-originated request is pending at any moment.
C30_RestoreOneAtATime == Cardinality(RestorePending) <= 1

\* the signWithPasskey calls that await the answer to their request
PasskeyPending == {c \in Calls : calls[c].op = "signPasskey" /\ calls[c].pc = "req"}

\* C31: while a signWithPasskey request is pending the modal surface is visible,
\* in every interleaving with other activity on the same host.
C31_PasskeyPendingVisible == PasskeyPending # {} => overlayShown

\* C32: every connectWithSignerType call eventually settles when armed timers
\* fire, whatever the peer delivers and whenever destroy() is called.
C32_ConnectSettles ==
  \A c \in Calls : [](calls[c].op = "connect" => <>(calls[c].pc = "done"))

\* a connect call that was in the handshake when the host was destroyed has been
\* rejected by a timer of the handshake
C32_Witness ==
  /\ state = "destroyed"
  /\ \E c \in Calls : /\ calls[c].op = "connect"
                       /\ calls[c].pc = "done"
                       /\ calls[c].id = 0
                       /\ calls[c].out = Rejected("TIMEOUT")

\* the connect calls still suspended in the handshake: neither of its timers fired
InHandshake == {c \in Calls : calls[c].pc \in {"load", "ready"}}

\* C33: once the load signal and the peer's READY were both delivered before the
\* handshake timers expired, the handshake is complete and CONNECT is sent,
\* whichever of the two came first.
C33_HandshakeEitherOrder == (seen.load /\ seen.ready) => InHandshake = {}

\* the result type that answers the request of an operation
ResultTypeOf(op) ==
  IF op = "connect" THEN "CONNECT_RESULT"
  ELSE IF op = "derive" THEN "DERIVE_ADDRESS_RESULT"
  ELSE "SIGN_RESULT"

\* the calls whose request is resolved by the step
ResolvedNow == {c \in Calls : /\ calls[c].pc = "req"
                              /\ calls'[c].pc = "done"
                              /\ calls'[c].out.st = "resolved"}

\* C34: a pending request is resolved only by the result type that corresponds to
\* its request type; in particular a connect is completed, and the session made
\* ready, only by a CONNECT_RESULT carrying the id of the pending connect: every
\* step that resolves a call is the handling of a message of the call's result type.
C34_ResolvedByOwnResultType ==
  [][\A c \in ResolvedNow :
       \E ev \in HostEvents : /\ ev.data.type = ResultTypeOf(calls[c].op)
                              /\ ev.data.rid = calls[c].id
                              /\ handleMessage(ev)]_vars

\* the pending requests other than the one named by rid keep their entry, their
\* timer and their promise
OtherRequestsKept(rid) ==
  \A i \in rm.pending \ {rid} :
    /\ i \in rm'.pending
    /\ (i \in rm'.timers) = (i \in rm.timers)
    /\ rm'.promise[i] = rm.promise[i]

\* C35: handleMessage never raises: every inbound event that passes the gate,
\* whatever its type and payload (an ERROR whose payload is null, lacks requestId
\* or names an unknown id, a type without handler), is processed or dropped
\* without an exception leaving the listener and without changing any pending
\* request other than the one it names.
C35_HandleMessageNeverRaises ==
  [][\A ev \in PayloadEvents :
       handleMessage(ev) => /\ ~events'.uncaught
                            /\ OtherRequestsKept(ev.data.rid)]_vars

\* C36: over any sequence of destroy() calls on a host, a destroy() made from
\* inside the destroyed-event handler included, the destroyed event is fired
\* once and no more.
C36_DestroyedFiredOnce == events.destroyed <= 1

\* the active address is the address of an entry of the list
ActiveListed == \E i \in 1..Len(wm.addresses) : wm.addresses[i].address = wm.currentAddress

\* C37: whenever the manager is ready its address list is non-empty and its active
\* address is the address of one entry of the list, after any sequence of
\* deriveAddress, switchToAddress, removeAddress and background restore steps.
C37_ReadyHasActiveEntry == wm.state = "ready" => (wm.addresses # <<>> /\ ActiveListed)

\* the run of initialize() before run r ended by throwing
PreviousRunThrew(r) == r > 1 /\ wmOps.runs[r - 1].init = "threw"

\* C40: after initialize() failed with a transport, timing or peer error the
\* caller can issue initialize() again and it makes a new connect attempt: the
\* manager is not left in the connecting state, in which initialize() returns
\* without doing anything.
C40_InitializeRetries ==
  \A r \in Runs :
    (PreviousRunThrew(r) /\ IsNextRun(r))
      => ENABLED (initialize(r) /\ wmOps'.runs[r].init = "connect")

\* the restore loops that take a turn, or end, in the step
RestoreMoves == {r \in Runs : /\ wmOps.runs[r].restore = "derive"
                              /\ wmOps'.runs[r] # wmOps.runs[r]}

\* C38: after HostWalletManager.destroy() a background restore that was still in
\* progress makes no further change: the address list stays empty and the
\* persisted cache is not rewritten.
C38_RestoreStopsAtDestroy ==
  [][(RestoreMoves # {} /\ wm'.state = "destroyed")
       => (wm'.addresses = <<>> /\ storage' = storage)]_vars

\* C39: the manager's destroyed state is terminal: after destroy() no operation
\* changes its state away from destroyed.
C39_DestroyedIsTerminal == [][wm.state = "destroyed" => wm'.state = "destroyed"]_vars
====
